---- MODULE Spec2Model ----
(***************************************************************************)
(* Bootstrap server of massa-bootstrap (src/massa-bootstrap/src/server.rs):*)
(* the manager's stop, the access-list updater thread, the scheduler       *)
(* thread (run_loop / mio_poll / greedy_client_check) and the session      *)
(* worker threads (run_bootstrap_session).                                 *)
(***************************************************************************)
EXTENDS Integers, Sequences, FiniteSets, TLC

(* ------------------------------ bounds -------------------------------- *)
\* number of connections the clients open in one run of AdmissionSpec
MaxConns == 3
\* number of connections the clients open in one run of Spec
StopConns == 2
\* number of distinct peer IP addresses
NumIps == 2
\* config.max_simultaneous_bootstraps
max_bootstraps == 1
\* config.per_ip_min_interval, in clock ticks
per_ip_min_interval == 1
\* config.ip_list_max_size
ip_list_max_size == 1

Conns == 1..MaxConns
Ips == 1..NumIps
\* the clock runs far enough for one cool-down to expire
MaxTime == per_ip_min_interval + 1
\* "no entry" of the IP-history map, "not admitted" of a connection
NoTime == -1

VARIABLES
    now,            \* the monotonic clock read by Instant::now()
    acceptQueue,    \* the listener's accept queue: <<connection, peer IP>>, oldest first
    listenerReady,  \* an edge-triggered LISTENER_ACCEPT readiness not yet returned by poll
    stopReady,      \* an edge-triggered STOP (Waker) readiness not yet returned by poll
    events,         \* the events of the last poll that mio_poll has not iterated yet
    schedPc,        \* position of the bs-main-loop thread in run_loop
    strong_count,   \* Arc::strong_count(&bootstrap_sessions_counter)
    ip_hist_map,    \* BootstrapServer::ip_hist_map
    whitelist,      \* the shared access list
    blacklist,
    updater,        \* the wb_list_updater thread
    updStopCh,      \* the message in flight on update_stopper (bounded(1))
    mgr,            \* position of BootstrapManager::stop
    conn,           \* per connection: its socket and its session worker
    last,           \* history: what run_loop did with the connection it accepted last
    lastAdmit,      \* history: per IP, when its last session was spawned
    \* the client binder (client_binder.rs) and its peer
    cpc,            \* position of the client inside next_timeout, or "idle"
    prev_message,   \* BootstrapClientBinder::prev_message
    legacy_msg,     \* next_timeout's local legacy_msg
    rx,             \* the frames the network has put on the client's socket, oldest first
    rxAvail,        \* how many bytes of rx have arrived at the client
    peerClosed,     \* the peer has closed the socket
    ret,            \* what the last call of the client binder returned
    tx,             \* what the client has written to the socket, oldest first
    srvChain,       \* the chain hash of the server binder at the other end
    srvRead,        \* how many entries of tx the server binder has read
    srvSent,        \* the frames the server binder has sent, oldest first
    hist,           \* history: deliveries and accepted frames so far
    \* stream_bootstrap_information (server.rs) and the final state it reads
    final_state,    \* the final state: its slot, its substates, its changes_history
    final_state_read, \* the read guard of the final state held by the streaming call
    spc,            \* position of stream_bootstrap_information, or "idle"
    last_slot,      \* the parameter and loop variable last_slot
    last_step,      \* last_ledger_step, last_pool_step, last_cycle_step, last_credits_step, last_ops_step
    last_consensus_step,
    current_slot,   \* the slot read in this iteration
    parts,          \* ledger_part, async_pool_part, pos_cycle_part, pos_credits_part, exec_ops_part
    final_state_changes,
    slot_too_old,
    sent,           \* the messages send_msg has sent in this call, oldest first
    sret,           \* what the call returned
    shist,          \* history: what the readers were handed and returned
    \* one session thread (run_bootstrap_session) and its client
    mpc,            \* position of the session thread
    cin,            \* what the client has written and the server has not read yet
    cwritten,       \* how many times the client has written
    sout,           \* the messages the session has sent to its client
    mres,           \* what manage_bootstrap returned
    fetch,          \* manage_bootstrap's local fetch
    arc_counter,    \* the session still holds its Arc of the sessions counter
    \* a block header (massa-models block_header.rs), serialized and deserialized
    hdr,            \* the BlockHeader
    last_start_period, \* BlockHeaderDeserializer::last_start_period
    hbuf,           \* the buffer the serializer has filled
    hout,           \* what the deserializer returned
    hpc,            \* "new", "serialized", "deserialized"
    \* greedy_client_check (server.rs) called on its own
    gcheck          \* its arguments, the clock, its result and the refusal text

serverVars == <<now, acceptQueue, listenerReady, stopReady, events, schedPc,
                strong_count, ip_hist_map, whitelist, blacklist, updater,
                updStopCh, mgr, conn, last, lastAdmit>>

binderVars == <<cpc, prev_message, legacy_msg, rx, rxAvail, peerClosed, ret,
                tx, srvChain, srvRead, srvSent, hist>>

\* what the threads of the bootstrap server leave alone
streamVars == <<final_state, final_state_read, spc, last_slot, last_step, last_consensus_step,
                current_slot, parts, final_state_changes, slot_too_old, sent,
                sret, shist>>

sessionVars == <<mpc, cin, cwritten, sout, mres, fetch, arc_counter>>

headerVars == <<hdr, last_start_period, hbuf, hout, hpc>>

greedyVars == <<gcheck>>

restVars == <<binderVars, streamVars, sessionVars, headerVars, greedyVars>>

vars == <<serverVars, restVars>>

envVars == <<now, acceptQueue, listenerReady>>
listVars == <<whitelist, blacklist>>
schedVars == <<events, schedPc, ip_hist_map, last, lastAdmit>>

\* a connection nobody has opened yet
NewConn ==
    [st |-> "none", errCalls |-> 0, frames |-> 0, closed |-> FALSE,
     token |-> 0, releases |-> 0]

\* before the first accept
NoLast ==
    [outcome |-> "none", guards |-> <<>>, gap |-> NoTime]

\* the manager has woken the STOP token
StopSignalled == mgr # "idle"

\* the scheduler thread has left run_loop
SchedExited == schedPc \in {"done", "failed"}

\* the session tokens alive: clones of the counter held by session workers
LiveTokens == Cardinality({c \in Conns : conn[c].token = 1})

(* --------------------------- pure functions --------------------------- *)

\* SharedWhiteBlackList::is_ip_allowed: "Ok", or the refusal
is_ip_allowed(ip, wl, bl) ==
    IF ip \in bl THEN "Blacklisted"
    ELSE IF wl = {} THEN "Ok"
    ELSE IF ip \in wl THEN "Ok"
    ELSE "NotWhitelisted"

\* BootstrapServerBinder::close_and_send_error on connection record r:
\* one best-effort BootstrapError frame (lost when the write fails), then close
close_and_send_error(r, ioOk) ==
    [r EXCEPT !.st = "refused", !.errCalls = @ + 1,
              !.frames = @ + (IF ioOk THEN 1 ELSE 0), !.closed = TRUE]

\* mutant: the root of the counter is taken for two references
SessionCount_offByOne == strong_count - 2

\* Arc::strong_count(&bootstrap_sessions_counter) - 1
SessionCount == strong_count - 1

\* HashMap::len
MapLen(m) == Cardinality({i \in Ips : m[i] # NoTime})

\* ip_hist_map.retain(|_k, v| now.duration_since(*v) <= per_ip_min_interval)
Retain(m, t) ==
    [i \in Ips |-> IF m[i] # NoTime /\ t - m[i] <= per_ip_min_interval
                   THEN m[i] ELSE NoTime]

\* ip_hist_map.clear()
EmptyMap == [i \in Ips |-> NoTime]

\* "clear IP history if necessary"
PruneHistory(m, t) ==
    IF MapLen(m) > ip_list_max_size
    THEN IF MapLen(Retain(m, t)) > ip_list_max_size
         THEN EmptyMap
         ELSE Retain(m, t)
    ELSE m

\* Instant::elapsed: the time from occ to the clock as it is read then
elapsed(occ, clock) == clock - occ

\* mutant: the attempt of a greedy client is entered in the IP history too
greedy_client_check_refreshes(m, ip, t, interval, clock) ==
    IF m[ip] # NoTime
    THEN IF t - m[ip] <= interval
         THEN [ok |-> FALSE, map |-> [m EXCEPT ![ip] = t],
               elapsed |-> clock - m[ip]]
         ELSE [ok |-> TRUE, map |-> [m EXCEPT ![ip] = t], elapsed |-> NoTime]
    ELSE [ok |-> TRUE, map |-> [m EXCEPT ![ip] = t], elapsed |-> NoTime]

\* greedy_client_check: the result and the map it leaves; the Duration of the
\* Err is occ.elapsed(), read on the clock when the entry is looked at
greedy_client_check(m, ip, t, interval, clock) ==
    IF m[ip] # NoTime
    THEN IF t - m[ip] <= interval
         THEN [ok |-> FALSE, map |-> m, elapsed |-> elapsed(m[ip], clock)]
         ELSE [ok |-> TRUE, map |-> [m EXCEPT ![ip] = t], elapsed |-> NoTime]
    ELSE [ok |-> TRUE, map |-> [m EXCEPT ![ip] = t], elapsed |-> NoTime]

\* Duration::saturating_sub
saturating_sub(a, b) == IF a > b THEN a - b ELSE 0

\* the refusal of a greedy client: "Your last bootstrap on this server was
\* {} ago and you have to wait {} before retrying."
GreedyMessage(msg, interval) ==
    [ago |-> msg, wait |-> saturating_sub(interval, msg)]

\* the contents the two list files can have
WhiteLists == {{}, {1}}
BlackLists == {{}, {1}}

(* ------------------------------- Init --------------------------------- *)

ServerInit ==
    /\ now = 0
    /\ acceptQueue = <<>>
    /\ listenerReady = FALSE
    /\ stopReady = FALSE
    /\ events = <<>>
    /\ schedPc = "wait"
    /\ strong_count = 1
    /\ ip_hist_map = EmptyMap
    /\ whitelist \in WhiteLists
    /\ blacklist \in BlackLists
    /\ updater = "running"
    /\ updStopCh = FALSE
    /\ mgr = "idle"
    /\ conn = [c \in Conns |-> NewConn]
    /\ last = NoLast
    /\ lastAdmit = [i \in Ips |-> NoTime]

(* ---------------------------- environment ----------------------------- *)

\* time passes (the clock is read by run_loop alone)
Tick ==
    /\ ~SchedExited
    /\ now < MaxTime
    /\ now' = now + 1
    /\ UNCHANGED <<acceptQueue, listenerReady, stopReady, listVars, schedVars,
                   strong_count, updater, updStopCh, mgr, conn>>
    /\ UNCHANGED restVars

\* a client connects while the listener exists: the connection joins the accept
\* queue and the listener becomes readable; n connections at most
ConnectUpTo(n) ==
    \E c \in 1..n, ip \in Ips :
        /\ ~SchedExited
        /\ conn[c].st = "none"
        /\ \A d \in Conns : d < c => conn[d].st # "none"
        /\ conn' = [conn EXCEPT ![c].st = "queued"]
        /\ acceptQueue' = Append(acceptQueue, <<c, ip>>)
        /\ listenerReady' = TRUE
        /\ UNCHANGED <<now, stopReady, listVars, schedVars, strong_count,
                       updater, updStopCh, mgr>>
        /\ UNCHANGED restVars

Connect == ConnectUpTo(StopConns)

ConnectMore == ConnectUpTo(MaxConns)

\* mio may report a readiness the listener does not have: nothing to accept
SpuriousEvent ==
    /\ ~SchedExited
    /\ acceptQueue = <<>>
    /\ ~listenerReady
    /\ listenerReady' = TRUE
    /\ UNCHANGED <<now, acceptQueue, stopReady, listVars, schedVars,
                   strong_count, updater, updStopCh, mgr, conn>>
    /\ UNCHANGED restVars

(* --------------------- scheduler thread: run_loop --------------------- *)

\* the space_waiter loop while the sessions are at the cap: snooze and look again
WaitSnooze ==
    /\ schedPc = "wait"
    /\ SessionCount >= max_bootstraps
    /\ UNCHANGED vars

\* the space_waiter loop left without looking at the sessions counter
WaitBreak_unchecked ==
    /\ schedPc = "wait"
    /\ schedPc' = "poll"
    /\ UNCHANGED <<envVars, stopReady, events, strong_count, ip_hist_map,
                   last, lastAdmit, listVars, updater,
                   updStopCh, mgr, conn>>
    /\ UNCHANGED restVars

\* the space_waiter loop finds a free slot: break, space_waiter.reset()
WaitBreak ==
    /\ schedPc = "wait"
    /\ ~(SessionCount >= max_bootstraps)
    /\ schedPc' = "poll"
    /\ UNCHANGED <<envVars, stopReady, events, strong_count, ip_hist_map,
                   last, lastAdmit, listVars, updater,
                   updStopCh, mgr, conn>>
    /\ UNCHANGED restVars

\* the orders in which one poll can return the pending readiness events
PollResults ==
    IF listenerReady /\ stopReady THEN {<<"ACCEPT", "STOP">>, <<"STOP", "ACCEPT">>}
    ELSE IF listenerReady THEN {<<"ACCEPT">>}
    ELSE {<<"STOP">>}

\* mio_poll: event_poller.poll(events, None) blocks until something is ready,
\* and returns every pending event; each edge is reported once
Poll ==
    /\ schedPc = "poll"
    /\ listenerReady \/ stopReady
    /\ events' \in PollResults
    /\ listenerReady' = FALSE
    /\ stopReady' = FALSE
    /\ schedPc' = "events"
    /\ UNCHANGED <<now, acceptQueue, strong_count, ip_hist_map, last,
                   lastAdmit, listVars, updater, updStopCh,
                   mgr, conn>>
    /\ UNCHANGED restVars

\* mio_poll, LISTENER_ACCEPT, accept() = WouldBlock: break to the next event,
\* and back to poll after the last one
AcceptWouldBlock ==
    /\ schedPc = "events"
    /\ Head(events) = "ACCEPT"
    /\ acceptQueue = <<>>
    /\ events' = Tail(events)
    /\ schedPc' = IF Tail(events) = <<>> THEN "poll" ELSE "events"
    /\ UNCHANGED <<envVars, stopReady, strong_count, ip_hist_map, last,
                   lastAdmit, listVars, updater, updStopCh,
                   mgr, conn>>
    /\ UNCHANGED restVars

\* mio_poll, LISTENER_ACCEPT, accept() = another error: run_loop returns
\* Err(IoError) and drops the root of the session counter
AcceptError ==
    /\ schedPc = "events"
    /\ Head(events) = "ACCEPT"
    /\ events' = <<>>
    /\ schedPc' = "failed"
    /\ strong_count' = strong_count - 1
    /\ UNCHANGED <<envVars, stopReady, ip_hist_map, last, lastAdmit,
                   listVars, updater, updStopCh, mgr, conn>>
    /\ UNCHANGED restVars

\* mio_poll, STOP: return Stopped; run_loop breaks and returns Ok
StopEvent ==
    /\ schedPc = "events"
    /\ Head(events) = "STOP"
    /\ events' = <<>>
    /\ schedPc' = "done"
    /\ strong_count' = strong_count - 1
    /\ UNCHANGED <<envVars, stopReady, ip_hist_map, last, lastAdmit,
                   listVars, updater, updStopCh, mgr, conn>>
    /\ UNCHANGED restVars

\* what the history keeps of one pass of run_loop's body
Outcome(what, g) ==
    [outcome |-> what, guards |-> g, gap |-> NoTime]

\* mutant: the error is sent twice
Refuse_twice(c, g, msg) ==
    /\ \E ioOk \in BOOLEAN :
           conn' = [conn EXCEPT
                      ![c] = close_and_send_error(close_and_send_error(@, ioOk), ioOk)]
    /\ last' = Outcome(msg, g)
    /\ strong_count' = strong_count

\* close_and_send_error(msg, remote_addr, ..) on connection c, whose guards
\* evaluated so far are g: the connection is refused
Refuse(c, g, msg) ==
    /\ \E ioOk \in BOOLEAN :
           conn' = [conn EXCEPT ![c] = close_and_send_error(@, ioOk)]
    /\ last' = Outcome(msg, g)
    /\ strong_count' = strong_count

\* "launch bootstrap": the token is cloned and moved into the session thread;
\* when thread::Builder::spawn fails the closure is dropped with the token and
\* the binder, and the result is ignored
SpawnSession(c, ip, g) ==
    \/ /\ conn' = [conn EXCEPT ![c].st = "manage", ![c].token = 1]
       /\ strong_count' = strong_count + 1
       /\ last' = [Outcome("Admitted", g) EXCEPT
                     !.gap = IF lastAdmit[ip] = NoTime THEN NoTime
                             ELSE now - lastAdmit[ip]]
       /\ lastAdmit' = [lastAdmit EXCEPT ![ip] = now]
    \/ /\ conn' = [conn EXCEPT ![c].st = "spawn_failed", ![c].closed = TRUE]
       /\ strong_count' = strong_count
       /\ last' = Outcome("SpawnFailed", g)
       /\ lastAdmit' = lastAdmit

\* "let now = Instant::now()", "clear IP history if necessary" and "check IP's
\* bootstrap attempt history"
RateCheck(c, ip, g) ==
    LET res == greedy_client_check(PruneHistory(ip_hist_map, now),
                                   ip, now, per_ip_min_interval, now)
    IN /\ ip_hist_map' = res.map
       /\ IF res.ok
          THEN SpawnSession(c, ip, Append(g, "rate"))
          ELSE /\ Refuse(c, Append(g, "rate"), "TooSoon")
               /\ lastAdmit' = lastAdmit

\* "if Arc::strong_count(&bootstrap_sessions_counter) - 1 < max_bootstraps",
\* and its else branch
CheckCap(c, ip, g) ==
    IF SessionCount < max_bootstraps
    THEN RateCheck(c, ip, Append(g, "cap"))
    ELSE /\ Refuse(c, Append(g, "cap"), "NoSlots")
         /\ UNCHANGED <<ip_hist_map, lastAdmit>>

\* mutant: the result of is_ip_allowed is read the wrong way round
CheckList_inverted(c, ip) ==
    LET verdict == is_ip_allowed(ip, whitelist, blacklist)
    IN IF verdict = "Ok"
       THEN /\ Refuse(c, <<"list">>, verdict)
            /\ UNCHANGED <<ip_hist_map, lastAdmit>>
       ELSE CheckCap(c, ip, <<"list">>)

\* mutant: the attempt of a denied peer is entered in the IP history
CheckList_recordsAttempt(c, ip) ==
    LET verdict == is_ip_allowed(ip, whitelist, blacklist)
    IN IF verdict # "Ok"
       THEN /\ Refuse(c, <<"list">>, verdict)
            /\ ip_hist_map' = [ip_hist_map EXCEPT ![ip] = now]
            /\ lastAdmit' = lastAdmit
       ELSE CheckCap(c, ip, <<"list">>)

\* "check whether incoming peer IP is allowed"
CheckList(c, ip) ==
    LET verdict == is_ip_allowed(ip, whitelist, blacklist)
    IN IF verdict # "Ok"
       THEN /\ Refuse(c, <<"list">>, verdict)
            /\ UNCHANGED <<ip_hist_map, lastAdmit>>
       ELSE CheckCap(c, ip, <<"list">>)

\* mio_poll, LISTENER_ACCEPT, accept() = Ok(conn): return Accepted(conn), the
\* events of this poll that were not iterated are dropped with the return; then
\* the body of run_loop for that connection, up to the top of the loop
AcceptConn ==
    /\ schedPc = "events"
    /\ Head(events) = "ACCEPT"
    /\ acceptQueue # <<>>
    /\ acceptQueue' = Tail(acceptQueue)
    /\ events' = <<>>
    /\ CheckList(Head(acceptQueue)[1], Head(acceptQueue)[2])
    /\ schedPc' = "wait"
    /\ UNCHANGED <<now, listenerReady, stopReady, listVars, updater,
                   updStopCh, mgr>>
    /\ UNCHANGED restVars

\* the steps of run_loop other than the return on Stopped
SchedulerRunning ==
    \/ WaitSnooze
    \/ WaitBreak
    \/ Poll
    \/ AcceptConn
    \/ AcceptWouldBlock
    \/ AcceptError

Scheduler == SchedulerRunning \/ StopEvent

(* ------------- session worker threads: run_bootstrap_session ---------- *)

\* mutant: the panic of a session thread takes the scheduler thread down
SessionManagePanic_abort(c) ==
    /\ conn[c].st = "manage"
    /\ conn' = [conn EXCEPT ![c].st = "panicked", ![c].token = 0,
                            ![c].releases = @ + 1, ![c].closed = TRUE]
    /\ strong_count' = strong_count - 1
    /\ schedPc' = "failed"
    /\ UNCHANGED <<envVars, stopReady, events, ip_hist_map, last, lastAdmit,
                   listVars, updater, updStopCh, mgr>>
    /\ UNCHANGED restVars

\* manage_bootstrap panics at todo!("handle the fetch here"): the unwinding
\* drops arc_counter and the binder, and the thread is gone
SessionManagePanic(c) ==
    /\ conn[c].st = "manage"
    /\ conn' = [conn EXCEPT ![c].st = "panicked", ![c].token = 0,
                            ![c].releases = @ + 1, ![c].closed = TRUE]
    /\ strong_count' = strong_count - 1
    /\ UNCHANGED <<envVars, stopReady, schedVars, listVars, updater,
                   updStopCh, mgr>>
    /\ UNCHANGED restVars

\* mutant: the token is not dropped after manage_bootstrap
SessionDrop_leak(c) ==
    /\ conn[c].st = "manage"
    /\ conn' = [conn EXCEPT ![c].st = "dropped"]
    /\ strong_count' = strong_count
    /\ UNCHANGED <<envVars, stopReady, schedVars, listVars, updater,
                   updStopCh, mgr>>
    /\ UNCHANGED restVars

\* manage_bootstrap returns Err from blocking_handshake (the "?"), then
\* drop(arc_counter)
SessionDrop(c) ==
    /\ conn[c].st = "manage"
    /\ conn' = [conn EXCEPT ![c].st = "dropped", ![c].token = 0,
                            ![c].releases = @ + 1]
    /\ strong_count' = strong_count - 1
    /\ UNCHANGED <<envVars, stopReady, schedVars, listVars, updater,
                   updStopCh, mgr>>
    /\ UNCHANGED restVars

\* todo!("handle bootstrap mgmt result"): the thread panics, arc_counter was
\* moved out by the drop, the binder is dropped by the unwinding
SessionTodo(c) ==
    /\ conn[c].st = "dropped"
    /\ conn' = [conn EXCEPT ![c].st = "panicked", ![c].closed = TRUE]
    /\ UNCHANGED <<envVars, stopReady, schedVars, strong_count, listVars,
                   updater, updStopCh, mgr>>
    /\ UNCHANGED restVars

Session ==
    \E c \in Conns :
        \/ SessionManagePanic(c)
        \/ SessionDrop(c)
        \/ SessionTodo(c)

\* a session worker thread that has not terminated
WorkerLive(c) == conn[c].st \in {"manage", "dropped"}

(* ------------------ wb_list_updater thread: run_updater --------------- *)

\* recv(ticker): list.update() swaps in the lists read from the files
UpdaterTick ==
    /\ updater = "running"
    /\ whitelist' \in WhiteLists
    /\ blacklist' \in BlackLists
    /\ UNCHANGED <<envVars, stopReady, schedVars, strong_count, updater,
                   updStopCh, mgr, conn>>
    /\ UNCHANGED restVars

\* recv(ticker): list.update() fails, run_updater returns the error
UpdaterTickErr ==
    /\ updater = "running"
    /\ updater' = "exit_err"
    /\ UNCHANGED <<envVars, stopReady, schedVars, strong_count, listVars,
                   updStopCh, mgr, conn>>
    /\ UNCHANGED restVars

\* mutant: the stop message is taken off the channel and run_updater goes on
UpdaterStop_goesOn ==
    /\ updater = "running"
    /\ updStopCh
    /\ updStopCh' = FALSE
    /\ updater' = "running"
    /\ UNCHANGED <<envVars, stopReady, schedVars, strong_count, listVars,
                   mgr, conn>>
    /\ UNCHANGED restVars

\* recv(stopper) = Ok(()): run_updater returns Ok
UpdaterStop ==
    /\ updater = "running"
    /\ updStopCh
    /\ updStopCh' = FALSE
    /\ updater' = "exit_ok"
    /\ UNCHANGED <<envVars, stopReady, schedVars, strong_count, listVars,
                   mgr, conn>>
    /\ UNCHANGED restVars

\* the steps of run_updater other than the return on the stop message
UpdaterRunning == UpdaterTick \/ UpdaterTickErr

Updater == UpdaterRunning \/ UpdaterStop

(* ---------------------- BootstrapManager::stop ------------------------ *)

\* self.stopper.wake(); self.update_stopper_tx.send(()): a send error (receiver
\* dropped) is only logged
StopSignal ==
    /\ mgr = "idle"
    /\ mgr' = "signalled"
    /\ stopReady' = TRUE
    /\ updStopCh' = (updater = "running")
    /\ UNCHANGED <<envVars, schedVars, strong_count, listVars, updater, conn>>
    /\ UNCHANGED restVars

\* self.update_handle.join().unwrap()?: an updater error ends stop here;
\* self.main_handle.join().unwrap(): the result of run_loop is the result of stop
StopReturn ==
    /\ mgr = "signalled"
    /\ \/ updater = "exit_err" /\ mgr' = "returned_err"
       \/ /\ updater = "exit_ok"
          /\ SchedExited
          /\ mgr' = IF schedPc = "failed" THEN "returned_err" ELSE "returned_ok"
    /\ UNCHANGED <<envVars, stopReady, schedVars, strong_count, listVars,
                   updater, updStopCh, conn>>
    /\ UNCHANGED restVars

Manager == StopSignal \/ StopReturn

\* BootstrapManager::stop has returned
StopReturned == mgr \in {"returned_ok", "returned_err"}

(* ------------- client binder: BootstrapClientBinder ------------------- *)

\* massa_signature::SIGNATURE_SIZE_BYTES
SIGNATURE_SIZE_BYTES == 64
\* cfg.max_bootstrap_message_size
max_bootstrap_message_size == 2
\* cfg.randomness_size_bytes
randomness_size_bytes == 1
\* frames one server binder sends in a run
MaxFrames == 2
\* frames the network delivers to the client in a run
MaxDeliveries == 2

\* Option::None of prev_message
NoHash == <<>>

\* Hash::compute_from: an injective digest of a byte string
Hash(bytes) == <<"H(">> \o bytes \o <<")">>

\* the bytes of the signature of a digest under a key: unforgeable, so that it
\* names its key and its digest
Sign(key, digest) == <<"S(", key>> \o digest \o <<")">>

\* PublicKey::verify_signature
verify_signature(pubkey, digest, sig) == sig = Sign(pubkey, digest)

\* the key pair of the bootstrap server: BootstrapClientBinder::remote_pubkey
remote_pubkey == "server"

\* u32::be_bytes_min_length: bytes needed to write any length up to max
be_bytes_min_length(max) ==
    IF max < 256 THEN 1
    ELSE IF max < 65536 THEN 2
    ELSE IF max < 16777216 THEN 3
    ELSE 4

\* BootstrapClientBinder::new: size_field_len
size_field_len == be_bytes_min_length(max_bootstrap_message_size)

\* next_timeout: peek_len
peek_len == SIGNATURE_SIZE_BYTES + size_field_len

\* u32::from_be_bytes_min(bytes, max): the length, or an error above max
from_be_bytes_min(len, max) ==
    IF len > max THEN [ok |-> FALSE, val |-> 0] ELSE [ok |-> TRUE, val |-> len]

\* mutant: the length is taken as it is written
ParseLen_unchecked(len) == [ok |-> TRUE, val |-> len]

\* next_timeout: "construct the message len from the peek"
ParseLen(len) == from_be_bytes_min(len, max_bootstrap_message_size)

\* the messages of the server and of the client used here
NoMsg == [type |-> "none", text |-> ""]
BootstrapTime == [type |-> "BootstrapTime", text |-> ""]
BootstrapFinished == [type |-> "BootstrapFinished", text |-> ""]
BootstrapErrorMsg == [type |-> "BootstrapError", text |-> "e"]
ServerMessages == {BootstrapFinished, BootstrapErrorMsg}
AskBootstrapPeers == [type |-> "AskBootstrapPeers", text |-> ""]
BootstrapSuccess == [type |-> "BootstrapSuccess", text |-> ""]
ClientMessages == {AskBootstrapPeers}

\* BootstrapServerMessageSerializer / BootstrapClientMessageSerializer: a tag,
\* then the fields
Serialize(m) ==
    IF m.type = "BootstrapTime" THEN <<"s0">>
    ELSE IF m.type = "BootstrapFinished" THEN <<"s4">>
    ELSE IF m.type = "BootstrapError" THEN <<"s5", m.text>>
    ELSE IF m.type = "AskBootstrapPeers" THEN <<"c0">>
    ELSE IF m.type = "AskBootstrapPart"
         THEN <<"c1", "last_slot", "ledger", "pool", "cycle", "credits", "ops",
                "consensus", "last_consensus_step", "send_last_start_period">>
    ELSE <<"c2">>

\* BootstrapServerMessageDeserializer::deserialize
DeserializeServer(bytes) ==
    IF bytes = <<"s0">> THEN [ok |-> TRUE, msg |-> BootstrapTime]
    ELSE IF bytes = <<"s4">> THEN [ok |-> TRUE, msg |-> BootstrapFinished]
    ELSE IF Len(bytes) = 2 /\ bytes[1] = "s5"
         THEN [ok |-> TRUE, msg |-> [type |-> "BootstrapError", text |-> bytes[2]]]
    ELSE [ok |-> FALSE, msg |-> NoMsg]

\* BootstrapClientMessageDeserializer::deserialize
DeserializeClient(bytes) ==
    IF bytes = <<"c0">> THEN [ok |-> TRUE, msg |-> AskBootstrapPeers]
    ELSE IF bytes = <<"c2">> THEN [ok |-> TRUE, msg |-> BootstrapSuccess]
    ELSE [ok |-> FALSE, msg |-> NoMsg]

\* VersionSerializer::serialize(&version)
version_ser == <<"ver">>

\* the values StdRng::from_entropy().fill_bytes can leave in the random part
Nonces == [1..randomness_size_bytes -> {"0", "1"}]

\* where a frame comes from: the session that signed it, its rank in that
\* session, whether its payload was altered on the way, its rank on the
\* client's socket; and what its sender sent: the message, the sender's chain
\* hash before and after
Origin(own, idx, altered) ==
    [own |-> own, idx |-> idx, altered |-> altered, pos |-> 0,
     msg |-> NoMsg, prior |-> NoHash, next |-> NoHash]
NoOrigin == Origin(FALSE, 0, FALSE)

\* a frame on the wire: signature[64] || len[size_field_len] || payload
Frame(sig, len, body, org) ==
    [sig |-> sig, len |-> len, body |-> body, org |-> org]

\* the bytes a frame takes on the wire
FrameSize(f) == peek_len + Len(f.body)

\* the bytes of the frames of q
RECURSIVE TotalSize(_)
TotalSize(q) == IF q = <<>> THEN 0 ELSE FrameSize(Head(q)) + TotalSize(Tail(q))

\* nothing returned yet
NoRet ==
    [op |-> "none", kind |-> "none", err |-> "", msg |-> NoMsg,
     hdrLen |-> 0, consumed |-> 0, org |-> NoOrigin, legacy |-> NoHash,
     after |-> NoHash]

\* the result of a call of the binder
Ret(op, kind, err) == [NoRet EXCEPT !.op = op, !.kind = kind, !.err = err]

BinderInit ==
    /\ cpc = "idle"
    /\ prev_message = NoHash
    /\ legacy_msg = NoHash
    /\ rx = <<>>
    /\ rxAvail = 0
    /\ peerClosed = FALSE
    /\ ret = NoRet
    /\ tx = <<>>
    /\ srvChain = NoHash
    /\ srvRead = 0
    /\ srvSent = <<>>
    /\ hist = [delivered |-> 0, accepted |-> 0, handshaken |-> FALSE,
               srvGot |-> NoRet]

(* ------------- stream_bootstrap_information and the final state ------ *)

\* the five substates of the final state that are streamed page by page
Substates == {"ledger", "pool", "cycle", "credits", "ops"}

\* the readers that can fail: get_ledger_part and get_cycle_history_part
FallibleReaders == {"ledger", "cycle"}

\* the keys and the values of an entry of a substate; Absent: no entry
MaxKey == 2
Keys == 1..MaxKey
Vals == {"a", "b"}
Absent == "none"

\* how many slots the final state advances, and how many slots of changes
\* the final state keeps (changes_history)
MaxSlot == 2
history_length == 1

\* the final blocks of the consensus graph, and a block that is final no more
Blocks == {"b1"}
OutdatedBlocks == {"b0"}

\* Option<Slot>: None
NoSlot == -1

\* StreamingStep<K>: Started | Ongoing(K) | Finished(None)
Started == [st |-> "Started", k |-> 0]
Ongoing(k) == [st |-> "Ongoing", k |-> k]
Finished == [st |-> "Finished", k |-> 0]
Steps == {Started, Finished} \cup {Ongoing(k) : k \in Keys}

\* StreamingStep<PreHashSet<BlockId>>
ConsensusOngoing(ids) == [st |-> "Ongoing", k |-> ids]
ConsensusStarted == [st |-> "Started", k |-> {}]
ConsensusFinished == [st |-> "Finished", k |-> {}]

\* StreamingStep::finished
finished(step) == step.st = "Finished"

\* the final state the server starts from: slot 0, no change kept
EmptyStore == [s \in Substates |-> [k \in Keys |-> Absent]]
InitialStore ==
    [EmptyStore EXCEPT !["ledger"] = [k \in Keys |-> "a"],
                       !["pool"] = [k \in Keys |-> IF k = 1 THEN "b" ELSE Absent]]
InitialFinalState ==
    [slot |-> 0, store |-> InitialStore, changes_history |-> <<>>]

\* the keys of substate s of a store that come after key k
KeysAfter(store, s, k) == {n \in Keys : n > k /\ store[s][n] # Absent}

\* the least key of a non-empty set of keys
MinKey(ks) == CHOOSE n \in ks : \A m \in ks : n <= m

\* a paginated reader of a substate: the page after the cursor (one entry a
\* page) and the new cursor; Finished comes with an empty page, and a
\* Finished cursor stays as it is
get_part(store, s, cursor) ==
    IF finished(cursor) THEN [page |-> {}, step |-> cursor]
    ELSE IF KeysAfter(store, s, cursor.k) = {} THEN [page |-> {}, step |-> Finished]
    ELSE LET n == MinKey(KeysAfter(store, s, cursor.k))
         IN [page |-> {<<n, store[s][n]>>}, step |-> Ongoing(n)]

\* an entry of a cursor's substate is covered by the cursor: it has been
\* streamed already
Covered(cursor, key) ==
    \/ finished(cursor)
    \/ cursor.st = "Ongoing" /\ key <= cursor.k

\* the changes of the slots after since, one entry a slot, each restricted
\* to what the new cursors cover
RECURSIVE ChangesSince(_, _, _)
ChangesSince(history, since, cursors) ==
    IF history = <<>> THEN <<>>
    ELSE LET h == Head(history)
             rest == ChangesSince(Tail(history), since, cursors)
         IN IF h.slot <= since THEN rest
            ELSE <<[slot |-> h.slot,
                    changes |-> {c \in h.changes : Covered(cursors[c.sub], c.key)}]>>
                 \o rest

\* FinalState::get_state_changes_part: InvalidSlot when the changes since the
\* slot are not all kept any more
get_state_changes_part(fs, since, cursors) ==
    IF since < fs.slot - Len(fs.changes_history)
    THEN [err |-> "InvalidSlot", data |-> <<>>]
    ELSE [err |-> "", data |-> ChangesSince(fs.changes_history, since, cursors)]

\* ConsensusController::get_bootstrap_part: the final blocks the cursor does
\* not hold yet, and the new cursor
get_bootstrap_part(cursor) ==
    IF finished(cursor) THEN [part |-> {}, outdated |-> {}, step |-> cursor]
    ELSE IF Blocks \ cursor.k = {}
    THEN [part |-> {}, outdated |-> cursor.k \ Blocks, step |-> ConsensusFinished]
    ELSE [part |-> Blocks \ cursor.k, outdated |-> cursor.k \ Blocks,
          step |-> ConsensusOngoing(cursor.k \cup Blocks)]

\* a ServerMessage of the streaming: BootstrapPart, SlotTooOld, BootstrapFinished
NoParts == [s \in Substates |-> {}]
StreamMsg(tag) ==
    [tag |-> tag, slot |-> NoSlot, parts |-> NoParts,
     final_state_changes |-> <<>>, consensus_part |-> {},
     consensus_outdated_ids |-> {}]
BootstrapPart(slot, pages, changes, cpart, outdated) ==
    [tag |-> "BootstrapPart", slot |-> slot, parts |-> pages,
     final_state_changes |-> changes, consensus_part |-> cpart,
     consensus_outdated_ids |-> outdated]

\* the readers of the streaming
Readers == Substates \cup {"consensus"}

\* nothing streamed yet
NoStreamHist ==
    [handed |-> [r \in Readers |->
                    IF r = "consensus" THEN ConsensusStarted ELSE Started],
     returned |-> [r \in Readers |->
                      IF r = "consensus" THEN ConsensusStarted ELSE Started],
     ncalls |-> [r \in Readers |-> 0],
     snap |-> InitialFinalState,
     fresh |-> FALSE,
     answer |-> "none",
     global |-> Started,
     mark |-> 0]

StreamInit ==
    /\ final_state = InitialFinalState
    /\ final_state_read = FALSE
    /\ spc = "idle"
    /\ last_slot = NoSlot
    /\ last_step = [s \in Substates |-> Started]
    /\ last_consensus_step = ConsensusStarted
    /\ current_slot = 0
    /\ parts = NoParts
    /\ final_state_changes = <<>>
    /\ slot_too_old = FALSE
    /\ sent = <<>>
    /\ sret = "none"
    /\ shist = NoStreamHist

(* ------------- one session: run_bootstrap_session, manage_bootstrap --- *)

\* how many messages the client of the session writes after its handshake
MaxClientMsgs == 2

\* what the client of a session writes: its handshake (a version the server
\* accepts or not), then ClientMessages
ClientHandshake(ok) == [type |-> "handshake", text |-> IF ok THEN "ok" ELSE "bad"]
ClientBootstrapError == [type |-> "BootstrapError", text |-> "e"]
AskBootstrapPart == [type |-> "AskBootstrapPart", text |-> ""]
SessionClientMessages ==
    {AskBootstrapPeers, AskBootstrapPart, BootstrapSuccess, ClientBootstrapError}

SessionInit ==
    /\ mpc = "handshake"
    /\ cin = <<>>
    /\ cwritten = 0
    /\ sout = <<>>
    /\ mres = "none"
    /\ fetch = NoMsg
    /\ arc_counter = TRUE

(* ------------- massa-models: BlockHeader serialization ---------------- *)

\* config::THREAD_COUNT, config::ENDORSEMENT_COUNT and
\* config::MAX_DENUNCIATIONS_PER_BLOCK_HEADER
THREAD_COUNT == 2
ENDORSEMENT_COUNT == 2
MAX_DENUNCIATIONS_PER_BLOCK_HEADER == 1

\* the last period of the slots of the headers
MaxPeriod == 1

\* bytes: a hash, a signature and a denunciation are each taken as one unit
BlockIds == {10, 11}
MerkleRoots == {12}
EndorsementSigs == {20}
Denunciations == {30}

\* Option<u64>: None
NoPeriod == -1

Slots == [period : 0..MaxPeriod, thread : 0..(THREAD_COUNT - 1)]

\* Endorsement with its signature (SecureShareEndorsement)
Endorsements ==
    [index : 0..(ENDORSEMENT_COUNT - 1), slot : Slots,
     endorsed_block : BlockIds, sig : EndorsementSigs]

\* the sequences over S of length n at most
SeqUpTo(S, n) == UNION {[1..k -> S] : k \in 0..n}

\* the headers BlockHeaderSerializer::serialize accepts: any slot, no parent
\* or THREAD_COUNT parents, endorsements and denunciations within the limits
\* (one endorsement at most here)
BlockHeaders ==
    [slot : Slots,
     parents : {<<>>} \cup [1..THREAD_COUNT -> BlockIds],
     operation_merkle_root : MerkleRoots,
     endorsements : SeqUpTo(Endorsements, 1),
     denunciations : SeqUpTo(Denunciations, MAX_DENUNCIATIONS_PER_BLOCK_HEADER)]

\* SlotSerializer::serialize: the period, then the thread
SerializeSlot(slot) == <<slot.period, slot.thread>>

\* SecureShareSerializer::serialize_with(EndorsementSerializerLW): the
\* signature and the index; the slot and the endorsed block are not written
RECURSIVE SerializeEndorsementsLW(_)
SerializeEndorsementsLW(es) ==
    IF es = <<>> THEN <<>>
    ELSE <<Head(es).sig, Head(es).index>> \o SerializeEndorsementsLW(Tail(es))

\* BlockHeaderSerializer::serialize
SerializeHeader(h) ==
    SerializeSlot(h.slot)
    \o (IF h.parents = <<>> THEN <<0>> ELSE <<1>>)
    \o h.parents
    \o <<h.operation_merkle_root>>
    \o <<Len(h.endorsements)>>
    \o SerializeEndorsementsLW(h.endorsements)
    \o <<Len(h.denunciations)>>
    \o h.denunciations

\* the bytes of b from position i on (a Rust slice &b[i - 1..])
From(b, i) == SubSeq(b, i, Len(b))

\* a failed deserialization, and a successful one
DeErr(why) == [ok |-> FALSE, why |-> why, header |-> <<>>, rest |-> <<>>]
DeOk(h, rest) == [ok |-> TRUE, why |-> "", header |-> h, rest |-> rest]

\* length_count over the endorsements: n times the signature and the index;
\* the slot and the endorsed block are those of EndorsementDeserializerLW::new
RECURSIVE DeserializeEndorsementsLW(_, _, _, _)
DeserializeEndorsementsLW(b, n, slot, parent_id) ==
    IF n = 0 THEN [ok |-> TRUE, items |-> <<>>, rest |-> b]
    ELSE IF Len(b) < 2 \/ b[1] \notin EndorsementSigs
            \/ b[2] \notin 0..(ENDORSEMENT_COUNT - 1)
    THEN [ok |-> FALSE, items |-> <<>>, rest |-> b]
    ELSE LET e == [index |-> b[2], slot |-> slot, endorsed_block |-> parent_id,
                   sig |-> b[1]]
             more == DeserializeEndorsementsLW(From(b, 3), n - 1, slot, parent_id)
         IN [ok |-> more.ok, items |-> <<e>> \o more.items, rest |-> more.rest]

\* length_count over the denunciations
RECURSIVE DeserializeDenunciations(_, _)
DeserializeDenunciations(b, n) ==
    IF n = 0 THEN [ok |-> TRUE, items |-> <<>>, rest |-> b]
    ELSE IF b = <<>> \/ b[1] \notin Denunciations
    THEN [ok |-> FALSE, items |-> <<>>, rest |-> b]
    ELSE LET more == DeserializeDenunciations(Tail(b), n - 1)
         IN [ok |-> more.ok, items |-> <<b[1]>> \o more.items, rest |-> more.rest]

\* the indexes of the endorsements are all different
UniqueIndexes(es) ==
    \A i, j \in 1..Len(es) : i # j => es[i].index # es[j].index

\* &rest[2..]: "we have a remaining [0, 0] in rest and we don't need it"
ParentlessRest(rest) == From(rest, 3)

\* BlockHeaderDeserializer::deserialize, with last_start_period lsp
DeserializeHeader(b, lsp) ==
    IF Len(b) < 3 \/ b[1] \notin 0..MaxPeriod \/ b[2] \notin 0..(THREAD_COUNT - 1)
    THEN DeErr("Failed slot deserialization")
    ELSE
    LET slot == [period |-> b[1], thread |-> b[2]]
        tagged == b[3]
        nparents == IF tagged = 1 THEN THREAD_COUNT ELSE 0
        parents == SubSeq(b, 4, 3 + nparents)
        afterParents == From(b, 4 + nparents)
    IN IF tagged \notin {0, 1} \/ Len(b) < 3 + nparents
          \/ \E i \in 1..Len(parents) : parents[i] \notin BlockIds
       THEN DeErr("Failed parents deserialization")
       ELSE IF lsp # NoPeriod /\ slot.period = lsp /\ parents # <<>>
       THEN DeErr("Genesis block cannot contain parents")
       ELSE IF lsp # NoPeriod /\ slot.period # lsp /\ Len(parents) # THREAD_COUNT
       THEN DeErr("Non-genesis block must have THREAD_COUNT parents")
       ELSE IF afterParents = <<>> \/ afterParents[1] \notin MerkleRoots
       THEN DeErr("Failed operation_merkle_root")
       ELSE
       LET merkle == afterParents[1]
           rest == Tail(afterParents)
       IN IF parents = <<>>
          THEN IF Len(rest) < 2 THEN DeErr("panic")
               ELSE DeOk([slot |-> slot, parents |-> parents,
                          operation_merkle_root |-> merkle,
                          endorsements |-> <<>>, denunciations |-> <<>>],
                         ParentlessRest(rest))
          ELSE IF rest = <<>> \/ rest[1] \notin 0..ENDORSEMENT_COUNT
          THEN DeErr("Failed length deserialization")
          ELSE
          LET parent_id == parents[slot.thread + 1]
              es == DeserializeEndorsementsLW(Tail(rest), rest[1], slot, parent_id)
          IN IF ~es.ok THEN DeErr("Failed endorsement deserialization")
             ELSE IF ~UniqueIndexes(es.items)
             THEN DeErr("Duplicate endorsement index found")
             ELSE IF es.rest = <<>>
                     \/ es.rest[1] \notin 0..MAX_DENUNCIATIONS_PER_BLOCK_HEADER
             THEN DeErr("Failed length deserialization")
             ELSE
             LET ds == DeserializeDenunciations(Tail(es.rest), es.rest[1])
             IN IF ~ds.ok THEN DeErr("Failed denunciation deserialization")
                ELSE DeOk([slot |-> slot, parents |-> parents,
                           operation_merkle_root |-> merkle,
                           endorsements |-> es.items,
                           denunciations |-> ds.items],
                          ds.rest)

HeaderInit ==
    /\ hdr \in BlockHeaders
    /\ last_start_period \in {NoPeriod, 0}
    /\ hbuf = <<>>
    /\ hout = DeErr("")
    /\ hpc = "new"

\* what the client binder and its peer leave alone
binderFrame == <<serverVars, streamVars, sessionVars, headerVars,
                greedyVars>>

\* the bytes handshake writes for a nonce, and how many they are
HandshakeBytes(nonce) == version_ser \o nonce
HandshakeLen == Len(version_ser) + randomness_size_bytes

\* an entry of tx: the handshake bytes, or a frame of send_timeout with the
\* chain hash written in front of it
Written(kind, prefix, body, org) ==
    [kind |-> kind, prefix |-> prefix, len |-> Len(body), body |-> body,
     org |-> org]

\* mutant: the chain hash is seeded before the bytes are written
Handshake_eager ==
    /\ cpc = "idle"
    /\ tx = <<>>
    /\ \E nonce \in Nonces, written \in {HandshakeLen - 1, HandshakeLen} :
           LET bytes == HandshakeBytes(nonce)
           IN /\ prev_message' = Hash(bytes)
              /\ tx' = <<Written("handshake", NoHash, SubSeq(bytes, 1, written),
                                 NoOrigin)>>
              /\ IF written = Len(bytes)
                 THEN /\ ret' = [Ret("handshake", "Ok", "") EXCEPT
                                   !.legacy = prev_message,
                                   !.after = Hash(bytes)]
                      /\ hist' = [hist EXCEPT !.handshaken = TRUE]
                      /\ cpc' = cpc
                 ELSE /\ ret' = [Ret("handshake", "Err", "Io") EXCEPT
                                   !.legacy = prev_message,
                                   !.after = Hash(bytes)]
                      /\ hist' = hist
                      /\ cpc' = "broken"
    /\ UNCHANGED <<legacy_msg, rx, rxAvail, peerClosed, srvChain, srvRead,
                   srvSent>>
    /\ UNCHANGED binderFrame

\* handshake(version), the first call on a new binder: write_all writes all the
\* bytes, or fails after some of them and the caller gives the connection up
Handshake ==
    /\ cpc = "idle"
    /\ tx = <<>>
    /\ \E nonce \in Nonces, written \in {HandshakeLen - 1, HandshakeLen} :
           LET bytes == HandshakeBytes(nonce)
           IN /\ tx' = <<Written("handshake", NoHash, SubSeq(bytes, 1, written),
                                 NoOrigin)>>
              /\ IF written = Len(bytes)
                 THEN /\ prev_message' = Hash(bytes)
                      /\ ret' = [Ret("handshake", "Ok", "") EXCEPT
                                   !.legacy = prev_message,
                                   !.after = Hash(bytes)]
                      /\ hist' = [hist EXCEPT !.handshaken = TRUE]
                      /\ cpc' = cpc
                 ELSE /\ prev_message' = prev_message
                      /\ ret' = [Ret("handshake", "Err", "Io") EXCEPT
                                   !.legacy = prev_message,
                                   !.after = prev_message]
                      /\ hist' = hist
                      /\ cpc' = "broken"
    /\ UNCHANGED <<legacy_msg, rx, rxAvail, peerClosed, srvChain, srvRead,
                   srvSent>>
    /\ UNCHANGED binderFrame

\* the digest a frame's signature is over: the payload after the chain hash
ChainDigest(prev, body) ==
    IF prev # NoHash THEN Hash(prev \o body) ELSE Hash(body)

\* writes of the client in a run
MaxWrites == 2

\* u32::to_be_bytes_min(max): the length is written unless it is above max
to_be_bytes_min(len, max) == len <= max

\* send_timeout(msg, duration), the writes succeeding: the chain hash is
\* updated and the old one written, then the length is encoded; a length above
\* the ceiling returns the error there and the caller gives the connection up
SendTimeout ==
    /\ cpc = "idle"
    /\ Len(tx) < MaxWrites
    /\ \E m \in ClientMessages \cup {AskBootstrapPart} :
           LET msg_bytes == Serialize(m)
               new == ChainDigest(prev_message, msg_bytes)
               org == [Origin(TRUE, Len(tx) + 1, FALSE) EXCEPT
                         !.msg = m, !.prior = prev_message, !.next = new]
           IN /\ prev_message' = new
              /\ IF to_be_bytes_min(Len(msg_bytes), max_bootstrap_message_size)
                 THEN /\ tx' = Append(tx, Written("frame", prev_message,
                                                  msg_bytes, org))
                      /\ ret' = Ret("send", "Ok", "")
                      /\ cpc' = cpc
                 ELSE /\ tx' = IF prev_message # NoHash
                               THEN Append(tx, Written("prefix", prev_message,
                                                       <<>>, org))
                               ELSE tx
                      /\ ret' = [Ret("send", "Err", "MessageTooLarge") EXCEPT
                                   !.hdrLen = Len(msg_bytes),
                                   !.legacy = prev_message, !.after = new]
                      /\ cpc' = "broken"
    /\ UNCHANGED <<legacy_msg, rx, rxAvail, peerClosed, srvChain, srvRead,
                   srvSent, hist>>
    /\ UNCHANGED binderFrame

\* next_timeout(duration) is called: set_read_timeout
NextCall ==
    /\ cpc = "idle"
    /\ cpc' = "peek"
    /\ UNCHANGED <<prev_message, legacy_msg, rx, rxAvail, peerClosed, ret, tx,
                   srvChain, srvRead, srvSent, hist>>
    /\ UNCHANGED binderFrame

\* peek blocks on an empty socket until the read timeout: the "?" returns
PeekTimeout ==
    /\ cpc = "peek"
    /\ rxAvail = 0
    /\ ~peerClosed
    /\ cpc' = "idle"
    /\ ret' = Ret("next", "Err", "Timeout")
    /\ UNCHANGED <<prev_message, legacy_msg, rx, rxAvail, peerClosed, tx,
                   srvChain, srvRead, srvSent, hist>>
    /\ UNCHANGED binderFrame

\* peek returns at once with the bytes there are, fewer than peek_len (none
\* after the peer's close): the while loop goes round
PeekSpin ==
    /\ cpc = "peek"
    /\ rxAvail < peek_len
    /\ rxAvail > 0 \/ peerClosed
    /\ UNCHANGED vars

\* the peek has the whole header: signature and length are parsed; a length
\* above the ceiling returns the error, otherwise prev_message is replaced
PeekHeader ==
    /\ cpc = "peek"
    /\ rxAvail >= peek_len
    /\ LET f == Head(rx)
       IN IF ~ParseLen(f.len).ok
          THEN /\ cpc' = "idle"
               /\ ret' = [Ret("next", "Err", "FrameTooLarge") EXCEPT
                            !.hdrLen = f.len, !.org = f.org]
               /\ UNCHANGED <<prev_message, legacy_msg>>
          ELSE /\ cpc' = "body"
               /\ legacy_msg' = prev_message
               /\ prev_message' = Hash(f.sig)
               /\ ret' = ret
    /\ UNCHANGED <<rx, rxAvail, peerClosed, tx, srvChain, srvRead, srvSent,
                   hist>>
    /\ UNCHANGED binderFrame

\* mutant: the result of verify_signature is not looked at
Verified_skipped(legacy, body, sig) == TRUE

\* next_timeout: the digest of the payload after legacy_msg, and
\* remote_pubkey.verify_signature
Verified(legacy, body, sig) ==
    verify_signature(remote_pubkey, ChainDigest(legacy, body), sig)

\* read_exact has header and payload: verify, then deserialize, then return
ReadBody ==
    /\ cpc = "body"
    /\ LET f == Head(rx)
           need == peek_len + ParseLen(f.len).val
           done == [Ret("next", "Err", "") EXCEPT
                      !.hdrLen = f.len, !.consumed = need, !.org = f.org,
                      !.legacy = legacy_msg, !.after = prev_message]
           de == DeserializeServer(f.body)
       IN /\ rxAvail >= need
          /\ rx' = Tail(rx)
          /\ rxAvail' = rxAvail - need
          /\ IF ~Verified(legacy_msg, f.body, f.sig)
             THEN ret' = [done EXCEPT !.err = "BadSignature"] /\ hist' = hist
             ELSE IF ~de.ok
             THEN ret' = [done EXCEPT !.err = "DeserializeError"] /\ hist' = hist
             ELSE /\ ret' = [done EXCEPT !.kind = "Ok", !.msg = de.msg]
                  /\ hist' = [hist EXCEPT !.accepted = @ + 1]
    /\ cpc' = "idle"
    /\ UNCHANGED <<prev_message, legacy_msg, peerClosed, tx, srvChain, srvRead,
                   srvSent>>
    /\ UNCHANGED binderFrame

\* read_exact lacks bytes when the read timeout expires or the peer has
\* closed: the "?" returns, the bytes read are lost and the caller gives up
ReadBodyFail ==
    /\ cpc = "body"
    /\ rxAvail < peek_len + ParseLen(Head(rx).len).val
    /\ cpc' = "broken"
    /\ ret' = [Ret("next", "Err", "Io") EXCEPT
                 !.hdrLen = Head(rx).len, !.consumed = rxAvail,
                 !.org = Head(rx).org, !.legacy = legacy_msg]
    /\ UNCHANGED <<prev_message, legacy_msg, rx, rxAvail, peerClosed, tx,
                   srvChain, srvRead, srvSent, hist>>
    /\ UNCHANGED binderFrame

\* the calls and steps of the client binder
ClientStep ==
    \/ Handshake
    \/ SendTimeout
    \/ NextCall
    \/ PeekTimeout
    \/ PeekSpin
    \/ PeekHeader
    \/ ReadBody
    \/ ReadBodyFail

(* ------------------ the server binder and the network ----------------- *)

\* the server binder reads what the client wrote: the handshake seeds its chain
\* hash; a frame is taken when the hash in front of it is the server's own
ServerRecv ==
    /\ srvRead < Len(tx)
    /\ LET e == tx[srvRead + 1]
       IN \/ /\ e.kind = "handshake"
             /\ Len(e.body) = HandshakeLen
             /\ srvChain' = Hash(e.body)
             /\ hist' = hist
          \/ /\ e.kind = "frame"
             /\ IF e.prefix = srvChain /\ DeserializeClient(e.body).ok
                THEN /\ srvChain' = ChainDigest(srvChain, e.body)
                     /\ hist' = [hist EXCEPT
                                   !.srvGot = [Ret("recv", "Ok", "") EXCEPT
                                                 !.msg = DeserializeClient(e.body).msg,
                                                 !.org = e.org,
                                                 !.legacy = srvChain,
                                                 !.after = ChainDigest(srvChain, e.body)]]
                ELSE /\ srvChain' = srvChain
                     /\ hist' = [hist EXCEPT
                                   !.srvGot = [Ret("recv", "Err", "BadSignature")
                                                 EXCEPT !.org = e.org,
                                                        !.legacy = srvChain,
                                                        !.after = srvChain]]
    /\ srvRead' = srvRead + 1
    /\ UNCHANGED <<cpc, prev_message, legacy_msg, rx, rxAvail, peerClosed, ret,
                   tx, srvSent>>
    /\ UNCHANGED binderFrame

\* the frame a binder with chain hash chain and key key sends for message m:
\* the signature is over the digest of the payload after the chain hash
SignedFrame(key, chain, m, org) ==
    Frame(Sign(key, ChainDigest(chain, Serialize(m))), Len(Serialize(m)),
          Serialize(m),
          [org EXCEPT !.msg = m, !.prior = chain,
                      !.next = ChainDigest(chain, Serialize(m))])

\* the server binder sends a message: its chain hash advances to the digest
ServerSend ==
    /\ srvChain # NoHash
    /\ Len(srvSent) < MaxFrames
    /\ ~peerClosed
    /\ \E m \in ServerMessages :
           LET f == SignedFrame(remote_pubkey, srvChain, m,
                                Origin(TRUE, Len(srvSent) + 1, FALSE))
           IN /\ srvSent' = Append(srvSent, f)
              /\ srvChain' = f.org.next
    /\ UNCHANGED <<cpc, prev_message, legacy_msg, rx, rxAvail, peerClosed, ret,
                   tx, srvRead, hist>>
    /\ UNCHANGED binderFrame

\* the payloads a frame can carry on the wire
Payloads == {Serialize(BootstrapFinished), <<"zz">>}

\* the chain hash a session with another nonce than the client's starts from
OtherChain ==
    Hash(HandshakeBytes(CHOOSE n \in Nonces : HandshakeBytes(n) # tx[1].body))

\* what the network can put on the client's socket: a frame the server sent in
\* this session, whatever its rank; such a frame with another payload; a frame
\* the server sent in a session with another nonce; a frame of somebody else
\* whose length field is above the ceiling
Deliverable ==
    {srvSent[i] : i \in 1..Len(srvSent)}
    \cup UNION {{[srvSent[i] EXCEPT !.body = b, !.len = Len(b),
                                     !.org.altered = TRUE] :
                      b \in Payloads \ {srvSent[i].body}} :
                     i \in 1..Len(srvSent)}
    \cup (IF hist.handshaken
          THEN {SignedFrame(remote_pubkey, OtherChain, m, Origin(FALSE, 1, FALSE)) :
                    m \in ServerMessages}
          ELSE {})
    \cup {Frame(Sign("mallory", NoHash), max_bootstrap_message_size + 1,
                [i \in 1..(max_bootstrap_message_size + 1) |-> "zz"],
                Origin(FALSE, 1, TRUE))}

\* the network puts a frame on the client's socket; none of its bytes has
\* arrived yet
Deliver ==
    /\ ~peerClosed
    /\ hist.delivered < MaxDeliveries
    /\ \E f \in Deliverable :
           rx' = Append(rx, [f EXCEPT !.org.pos = hist.delivered + 1])
    /\ hist' = [hist EXCEPT !.delivered = @ + 1]
    /\ UNCHANGED <<cpc, prev_message, legacy_msg, rxAvail, peerClosed, ret, tx,
                   srvChain, srvRead, srvSent>>
    /\ UNCHANGED binderFrame

\* the byte counts at which the arrival of rx can pause: inside a header, after
\* a header, after a frame
RECURSIVE CutPoints(_, _)
CutPoints(q, base) ==
    IF q = <<>> THEN {}
    ELSE {base + SIGNATURE_SIZE_BYTES, base + peek_len, base + FrameSize(Head(q))}
         \cup CutPoints(Tail(q), base + FrameSize(Head(q)))

\* more bytes of rx arrive
DeliverBytes ==
    /\ \E k \in CutPoints(rx, 0) : k > rxAvail /\ rxAvail' = k
    /\ UNCHANGED <<cpc, prev_message, legacy_msg, rx, peerClosed, ret, tx,
                   srvChain, srvRead, srvSent, hist>>
    /\ UNCHANGED binderFrame

\* the peer closes the socket: the bytes that have not arrived never will
PeerClose ==
    /\ ~peerClosed
    /\ peerClosed' = TRUE
    /\ UNCHANGED <<cpc, prev_message, legacy_msg, rx, rxAvail, ret, tx,
                   srvChain, srvRead, srvSent, hist>>
    /\ UNCHANGED binderFrame

\* the steps of the client's peer and of the network between them
PeerStep ==
    \/ ServerRecv
    \/ ServerSend
    \/ Deliver
    \/ DeliverBytes
    \/ PeerClose

(* --------------------------- specification ---------------------------- *)

\* the server starts; no client binder is looked at
\* no header is looked at
NoHeader ==
    /\ hdr = <<>>
    /\ last_start_period = NoPeriod
    /\ hbuf = <<>>
    /\ hout = DeErr("")
    /\ hpc = "none"

\* greedy_client_check is not called on its own
NoGreedy ==
    gcheck = [pc |-> "none", map |-> EmptyMap, ip |-> 1, now |-> 0, clock |-> 0,
              res |-> [ok |-> TRUE, map |-> EmptyMap, elapsed |-> NoTime],
              text |-> [ago |-> NoTime, wait |-> NoTime]]

Init ==
    ServerInit /\ BinderInit /\ StreamInit /\ SessionInit /\ NoHeader /\ NoGreedy

Next ==
    \/ Tick
    \/ Connect
    \/ SpuriousEvent
    \/ Scheduler
    \/ Session
    \/ Updater
    \/ Manager

Spec == Init /\ [][Next]_vars

\* the server while nobody stops it
NextAdmission ==
    \/ Tick
    \/ ConnectMore
    \/ SpuriousEvent
    \/ SchedulerRunning
    \/ Session
    \/ UpdaterRunning

AdmissionSpec == Init /\ [][NextAdmission]_vars

\* the same, the scheduler thread being scheduled again and again; a session
\* blocked on its peer may stay so
FairAdmissionSpec == AdmissionSpec /\ WF_vars(SchedulerRunning)

(* ----------------------------- properties ----------------------------- *)

\* the step of run_loop that decides on the connection at the head of the
\* accept queue
Decides == schedPc = "events" /\ schedPc' = "wait"

\* the connection that step decides on, and its peer IP
Decided == Head(acceptQueue)[1]
DecidedIp == Head(acceptQueue)[2]

\* the outcomes that are refusals
Refusals == {"Blacklisted", "NotWhitelisted", "NoSlots", "TooSoon"}

\* C1: in every reachable state the number of live session tokens is at most
\* max_simultaneous_bootstraps
C1_ConcurrencyCap == LiveTokens <= max_bootstraps

\* C1 witness: the sessions are at the cap after an earlier worker has ended,
\* and another connection is waiting in the accept queue
C1_AtCapWithPending ==
    /\ LiveTokens = max_bootstraps
    /\ acceptQueue # <<>>
    /\ \E c \in Conns : conn[c].st = "panicked"

\* C2: two admitted connections from the same IP have admission instants at
\* least per_ip_min_interval apart
C2_RateLimit ==
    (last.outcome = "Admitted" /\ last.gap # NoTime)
        => last.gap >= per_ip_min_interval

\* what C3 says of every refusal, the number of frames written apart: one call
\* of close_and_send_error, the socket closed, no session worker, the loop back
\* at its top; and nothing touches a refused connection afterwards
RefusalShape(c) ==
    /\ (Decides /\ Decided = c /\ last'.outcome \in Refusals)
           => /\ conn'[c].st = "refused"
              /\ conn'[c].errCalls = 1
              /\ conn'[c].closed
              /\ conn'[c].token = 0
              /\ strong_count' = strong_count
              /\ schedPc' = "wait"
    /\ conn[c].st = "refused" => conn'[c] = conn[c]

\* C3 as stated: every refused connection gets one call of
\* close_and_send_error and exactly one BootstrapError frame before the close,
\* no session worker, and the scheduler goes on to the next accept
C3_ExactlyOneFrame ==
    [][\A c \in Conns :
           /\ RefusalShape(c)
           /\ (Decides /\ Decided = c /\ last'.outcome \in Refusals)
                  => conn'[c].frames = 1]_vars

\* C3 amended: every refused connection gets one call of close_and_send_error,
\* hence at most one BootstrapError frame (none when the best-effort write
\* fails) before the close, no session worker, and the scheduler goes on to the
\* next accept
C3_AtMostOneFrame ==
    [][\A c \in Conns :
           /\ RefusalShape(c)
           /\ (Decides /\ Decided = c /\ last'.outcome \in Refusals)
                  => conn'[c].frames <= 1]_vars

\* C3 witness: a connection was refused with its one frame written, and the
\* scheduler is about to accept the next one
C3_RefusedThenNext ==
    /\ \E c \in Conns :
           conn[c].st = "refused" /\ conn[c].frames = 1 /\ conn[c].closed
    /\ last.outcome = "TooSoon"
    /\ schedPc = "events"
    /\ acceptQueue # <<>>

\* C4: the guards run in the order list, cap, cool-down; the first that fails
\* produces the refusal and no later guard runs: the IP history is left as it
\* was for a connection refused by the access list or by the cap
C4_GuardOrder ==
    [][Decides =>
           /\ last'.outcome \in {"Blacklisted", "NotWhitelisted"}
                  => last'.guards = <<"list">> /\ ip_hist_map' = ip_hist_map
           /\ last'.outcome = "NoSlots"
                  => last'.guards = <<"list", "cap">> /\ ip_hist_map' = ip_hist_map
           /\ last'.outcome \in {"TooSoon", "Admitted", "SpawnFailed"}
                  => last'.guards = <<"list", "cap", "rate">>
           /\ last'.outcome = "TooSoon"
                  => /\ ip_hist_map[DecidedIp] # NoTime
                     /\ now - ip_hist_map[DecidedIp] <= per_ip_min_interval
                     /\ SessionCount < max_bootstraps]_vars

\* C4 witness: a connection was refused by the access list while the IP history
\* held an entry
C4_RefusedAtFirstGuard ==
    /\ last.outcome \in {"Blacklisted", "NotWhitelisted"}
    /\ last.guards = <<"list">>
    /\ \E i \in Ips : ip_hist_map[i] # NoTime

\* C5: when the sessions are at the cap and stay there, a further connection
\* is refused (no slots available, socket closed)
C5_ExtraClientRefused ==
    \A c \in Conns :
        (conn[c].st = "queued" /\ LiveTokens = max_bootstraps)
            ~> (conn[c].st = "refused" \/ LiveTokens < max_bootstraps)

\* C6: the scheduler refuses a connection at the first guard iff its IP is in
\* the blacklist (Blacklisted, whatever the whitelist holds) or the whitelist
\* is not empty and does not hold it (NotWhitelisted)
C6_AccessDecision ==
    [][Decides =>
           /\ (last'.guards = <<"list">> /\ conn'[Decided].st = "refused")
                  <=> \/ DecidedIp \in blacklist
                      \/ whitelist # {} /\ DecidedIp \notin whitelist
           /\ DecidedIp \in blacklist => last'.outcome = "Blacklisted"
           /\ (DecidedIp \notin blacklist /\ whitelist # {}
                   /\ DecidedIp \notin whitelist)
                  => last'.outcome = "NotWhitelisted"
           /\ (DecidedIp \notin blacklist
                   /\ (whitelist = {} \/ DecidedIp \in whitelist))
                  => last'.outcome \notin {"Blacklisted", "NotWhitelisted"}]_vars

\* C6 witness: a connection was refused as blacklisted while its IP is in the
\* whitelist too
C6_BlacklistedThoughWhitelisted ==
    /\ last.outcome = "Blacklisted"
    /\ schedPc = "wait"
    /\ blacklist = {1}
    /\ whitelist = {1}

\* C7: when BootstrapManager::stop has returned, the scheduler thread, the
\* updater thread and every session worker thread have terminated
C7_StopJoinsAll ==
    StopReturned
        => /\ SchedExited
           /\ updater # "running"
           /\ \A c \in Conns : ~WorkerLive(c)

\* C8: no session is spawned for a connection accepted from a poll that
\* returned the stop event as well
C8_NoSpawnOnStopPoll ==
    [][(schedPc = "events" /\ \E i \in 1..Len(events) : events[i] = "STOP")
           => \A c \in Conns :
                  ~(conn[c].st = "queued" /\ conn'[c].st = "manage")]_vars

\* C9: a scheduler that waits for a free slot after stop was signalled has a
\* step to take without any session ending
C9_StopSeenAtCap ==
    (schedPc = "wait" /\ StopSignalled /\ SessionCount >= max_bootstraps)
        => ENABLED <<Scheduler>>_vars

\* C10: a session worker holds one token from its spawn on and releases it
\* once, however it ends; the counter is the live tokens plus the scheduler's
\* root, so it is back at no session when every worker has ended
C10_TokenOncePerWorker ==
    /\ \A c \in Conns :
           /\ conn[c].st = "manage"
                  => conn[c].token = 1 /\ conn[c].releases = 0
           /\ conn[c].st \in {"dropped", "panicked"}
                  => conn[c].token = 0 /\ conn[c].releases = 1
           /\ conn[c].st \notin {"manage", "dropped", "panicked"}
                  => conn[c].token = 0 /\ conn[c].releases = 0
    /\ strong_count = LiveTokens + (IF SchedExited THEN 0 ELSE 1)
    /\ (\A c \in Conns : conn[c].st # "manage") => LiveTokens = 0

\* C10 witness: a worker has ended on the error path, another by the panic in
\* manage_bootstrap, and the counter is back at the scheduler's root
C10_AllReleased ==
    /\ \E c \in Conns : conn[c].st = "dropped" /\ conn[c].releases = 1
    /\ \E c \in Conns : conn[c].st = "panicked" /\ conn[c].releases = 1
    /\ strong_count = 1

\* a step in which the session worker of connection c ends or moves on
WorkerStep(c) == WorkerLive(c) /\ conn'[c] # conn[c]

\* C11: a session worker that panics or fails leaves the scheduler thread where
\* it is, with its accept queue, poll events and IP history, and gives its slot
\* back; and a scheduler waiting at the top of its loop goes on as soon as the
\* sessions are below the cap
C11_WorkerDeathLeavesScheduler ==
    /\ [][\A c \in Conns :
              WorkerStep(c)
                  => /\ schedPc' = schedPc
                     /\ events' = events
                     /\ acceptQueue' = acceptQueue
                     /\ listenerReady' = listenerReady
                     /\ ip_hist_map' = ip_hist_map
                     /\ conn'[c].token = 0
                     /\ strong_count' = strong_count - conn[c].token]_vars
    /\ []((schedPc = "wait" /\ LiveTokens < max_bootstraps)
              => ENABLED <<WaitBreak>>_vars)

\* C11 witness: after the worker of one connection has panicked, a later
\* connection has been admitted to the slot it gave back
C11_AdmittedAfterPanic ==
    \E c \in Conns, d \in Conns :
        /\ c < d
        /\ conn[c].st = "panicked"
        /\ conn[d].st = "manage"
        /\ LiveTokens = max_bootstraps

(* ---------------- the client binder and its peer -------------------- *)

\* a client binder on a fresh connection; the server's threads are not looked at
ClientInit ==
    /\ ServerInit /\ whitelist = {} /\ blacklist = {}
    /\ BinderInit /\ StreamInit /\ SessionInit /\ NoHeader /\ NoGreedy

ClientNext == ClientStep \/ PeerStep

ClientSpec == ClientInit /\ [][ClientNext]_vars

\* the same, the client's thread being scheduled again and again; the peer and
\* the network may stay silent
FairClientSpec == ClientSpec /\ WF_vars(ClientStep)

\* a frame on the client's socket that is not the frame the server sent at
\* that rank of this session, as it sent it
Affected(org) == ~(org.own /\ ~org.altered /\ org.idx = org.pos)

\* next_timeout has read a whole frame (header and payload) and returned
ReadWhole(r) == r.op = "next" /\ r.consumed > 0 /\ r.err # "Io"

\* C12: after the handshake, a frame whose payload was altered, that was
\* swapped with another, that follows a dropped frame or that was recorded in
\* a session with another nonce makes next_timeout return no message, and fail
\* the signature verification once the frame is read
C12_TamperingDetected ==
    (ret.op = "next" /\ hist.handshaken /\ Affected(ret.org))
        => /\ ret.kind = "Err"
           /\ ret.msg = NoMsg
           /\ ReadWhole(ret) => ret.err = "BadSignature"

\* C12 witness: after one frame was accepted, a frame the server did send in
\* this session, unaltered but out of its rank, was read and rejected
C12_ReplayRejected ==
    /\ hist.handshaken
    /\ hist.accepted = 1
    /\ ReadWhole(ret)
    /\ ret.err = "BadSignature"
    /\ ret.org.own /\ ~ret.org.altered /\ ret.org.idx # ret.org.pos

\* C13: when sender and receiver share the chain hash before a frame, the
\* receiver decodes the message that was encoded and both have the same chain
\* hash afterwards, in both directions
C13_RoundTrip ==
    /\ (ReadWhole(ret) /\ ~Affected(ret.org) /\ ret.legacy = ret.org.prior)
           => /\ ret.kind = "Ok"
              /\ ret.msg = ret.org.msg
              /\ ret.after = ret.org.next
    /\ (hist.srvGot.op = "recv" /\ hist.srvGot.legacy = hist.srvGot.org.prior)
           => /\ hist.srvGot.kind = "Ok"
              /\ hist.srvGot.msg = hist.srvGot.org.msg
              /\ hist.srvGot.after = hist.srvGot.org.next

\* C14: a frame next_timeout decodes has a payload of at most
\* max_bootstrap_message_size bytes, and a header whose length is above it
\* makes next_timeout fail with no byte taken off the stream
C14_FrameBound ==
    /\ cpc = "body" => Head(rx).len <= max_bootstrap_message_size
    /\ ret.op = "next"
           => /\ ret.kind = "Ok"
                     => /\ ret.hdrLen <= max_bootstrap_message_size
                        /\ Len(Serialize(ret.msg)) <= max_bootstrap_message_size
                        /\ ret.consumed = peek_len + Len(Serialize(ret.msg))
              /\ ret.hdrLen > max_bootstrap_message_size
                     => ret.kind = "Err" /\ ret.consumed = 0

\* C14 witness: next_timeout failed on a header above the ceiling whose whole
\* frame had arrived, and the frame is still on the socket
C14_OversizeRefused ==
    /\ ret.err = "FrameTooLarge"
    /\ ret.hdrLen > max_bootstrap_message_size
    /\ rx # <<>>
    /\ rxAvail >= peek_len + ret.hdrLen

\* C17: a successful handshake has written version_bytes and then
\* randomness_size_bytes bytes, and the chain hash is the hash of these bytes;
\* a failed one returns an error and leaves the chain hash as it was, absent
\* on a binder that has not read a frame yet
C17_Handshake ==
    ret.op = "handshake"
        => /\ ret.kind = "Ok"
                  => /\ tx[1].kind = "handshake"
                     /\ \E n \in Nonces : tx[1].body = version_ser \o n
                     /\ Len(tx[1].body) = Len(version_ser) + randomness_size_bytes
                     /\ ret.after = Hash(tx[1].body)
                     /\ cpc = "idle" => prev_message = ret.after
           /\ ret.kind # "Ok"
                  => /\ ret.kind = "Err"
                     /\ ret.after = ret.legacy
                     /\ prev_message = ret.legacy
                     /\ hist.delivered = 0 => prev_message = NoHash
                     /\ Len(tx[1].body) < Len(version_ser) + randomness_size_bytes

\* C17 witness: the handshake succeeded and the server binder has seeded its
\* chain hash from the bytes it read
C17_HandshakeDone ==
    /\ ret.op = "handshake"
    /\ ret.kind = "Ok"
    /\ prev_message = Hash(tx[1].body)
    /\ srvChain = prev_message

\* C18: next_timeout does not return a BootstrapError message as a message
C18_ErrorPropagated ==
    ret.op = "next" => ~(ret.kind = "Ok" /\ ret.msg.type = "BootstrapError")

\* C19: a call of next_timeout returns
C19_NextReturns == (cpc \in {"peek", "body"}) ~> (cpc \in {"idle", "broken"})

(* ------------- stream_bootstrap_information -------------------------- *)

\* what stream_bootstrap_information and the final state leave alone
streamFrame == <<serverVars, binderVars, sessionVars, headerVars,
                greedyVars>>

\* a write of the final state by the execution: the slot advances by one and
\* its changes, if any, are applied and kept in changes_history, of which
\* only the last history_length slots stay
SlotChanges ==
    {{}} \cup {{[sub |-> s, key |-> k, val |-> v]} :
                   s \in Substates, k \in Keys, v \in Vals \cup {Absent}}

ApplySet(store, cs) ==
    [s \in Substates |->
        [k \in Keys |->
            IF \E c \in cs : c.sub = s /\ c.key = k
            THEN (CHOOSE c \in cs : c.sub = s /\ c.key = k).val
            ELSE store[s][k]]]

LastOf(q, n) == IF Len(q) <= n THEN q ELSE SubSeq(q, Len(q) - n + 1, Len(q))

FinalStateWrite ==
    /\ ~final_state_read
    /\ final_state.slot < MaxSlot
    /\ \E cs \in SlotChanges :
          /\ \A c \in cs : final_state.store[c.sub][c.key] # c.val
          /\ final_state' =
                [slot |-> final_state.slot + 1,
                 store |-> ApplySet(final_state.store, cs),
                 changes_history |->
                     LastOf(Append(final_state.changes_history,
                                   [slot |-> final_state.slot + 1, changes |-> cs]),
                            history_length)]
    /\ UNCHANGED <<final_state_read, spc, last_slot, last_step,
                   last_consensus_step, current_slot, parts,
                   final_state_changes, slot_too_old, sent, sret, shist>>
    /\ UNCHANGED streamFrame

\* the cursors a client asks a part with: those of a client that starts, or
\* those of a client that has the whole state of the slot it reports
StreamCall ==
    /\ spc = "idle"
    /\ \E slot \in {NoSlot} \cup 0..MaxSlot, resumed \in BOOLEAN,
          cons \in {ConsensusStarted, ConsensusOngoing(OutdatedBlocks),
                    ConsensusFinished} :
          /\ resumed => slot # NoSlot
          /\ ~resumed => cons # ConsensusFinished
          /\ last_slot' = slot
          /\ last_step' = [s \in Substates |-> IF resumed THEN Finished ELSE Started]
          /\ last_consensus_step' = cons
          /\ shist' = [NoStreamHist EXCEPT !.fresh = ~resumed]
    /\ spc' = "lock"
    /\ UNCHANGED <<final_state, final_state_read, current_slot, parts,
                   final_state_changes, slot_too_old, sent, sret>>
    /\ UNCHANGED streamFrame

\* a cursor kept as it was instead of the one the reader returned
NextStep_stale(cur, new) == cur

\* Update cursors for next turn
NextStep(cur, new) == new

\* last_slot kept as it was instead of the slot read
NextSlot_unset(cur, slot) == cur

\* last_slot set one slot behind the slot read
NextSlot_behind(cur, slot) == IF slot > 0 THEN slot - 1 ELSE slot

\* last_slot = Some(final_state_read.slot)
NextSlot(cur, slot) == slot

\* the store's answer never taken for a slot too old
TooOld_never(err) == FALSE

\* Err(err) if matches!(err, FinalStateError::InvalidSlot(_))
TooOld(err) == err = "InvalidSlot"

\* the streaming call returns r
StreamReturn(r) ==
    /\ spc' = "done"
    /\ sret' = r

\* the read guard kept after the scope of the final state read
HeldAfterScope_kept == TRUE

\* the read guard is dropped where its scope ends, and where the call returns
HeldAfterScope == FALSE

\* the cursor's slot never taken for a future one
FutureSlot_never(slot, current) == FALSE

\* if slot > final_state_read.slot: "Bootstrap cursor set to future slot"
FutureSlot(slot, current) == slot > current

\* let final_state_read = final_state.read()
StreamLock ==
    /\ spc = "lock"
    /\ final_state_read' = TRUE
    /\ spc' = "read"
    /\ UNCHANGED <<final_state, last_slot, last_step, last_consensus_step,
                   current_slot, parts, final_state_changes, slot_too_old,
                   sent, sret, shist>>
    /\ UNCHANGED streamFrame

\* the scope of the final state read of one iteration
StreamRead ==
    /\ spc = "read"
    /\ final_state_read
    /\ final_state_read' = HeldAfterScope
    /\ \E fail \in {"none", "state_changes"} \cup FallibleReaders :
          LET fs == final_state
              got == [s \in Substates |-> get_part(fs.store, s, last_step[s])]
              new == [s \in Substates |-> got[s].step]
              asks == last_slot # NoSlot /\ last_slot # fs.slot
              answer == get_state_changes_part(fs, last_slot, new)
              err == IF fail = "state_changes" THEN "Other" ELSE answer.err
              seen == [shist EXCEPT
                          !.handed = [r \in Readers |->
                                         IF r \in Substates THEN last_step[r] ELSE @[r]],
                          !.returned = [r \in Readers |->
                                           IF r \in Substates THEN new[r] ELSE @[r]],
                          !.ncalls = [r \in Readers |->
                                         IF r \in Substates THEN @[r] + 1 ELSE @[r]],
                          !.snap = fs,
                          !.mark = Len(sent)]
          IN IF fail \in FallibleReaders
             THEN /\ StreamReturn("ModelsError")
                  /\ shist' = [shist EXCEPT !.answer = "none", !.mark = Len(sent)]
                  /\ UNCHANGED <<last_slot, last_step, current_slot, parts,
                                 final_state_changes, slot_too_old>>
             ELSE IF asks /\ FutureSlot(last_slot, fs.slot)
             THEN /\ fail = "none"
                  /\ StreamReturn("GeneralError")
                  /\ shist' = [seen EXCEPT !.answer = "none"]
                  /\ UNCHANGED <<last_slot, last_step, current_slot, parts,
                                 final_state_changes, slot_too_old>>
             ELSE IF asks /\ err # "" /\ ~TooOld(err)
             THEN /\ StreamReturn("FinalStateError")
                  /\ shist' = [seen EXCEPT !.answer = err]
                  /\ UNCHANGED <<last_slot, last_step, current_slot, parts,
                                 final_state_changes, slot_too_old>>
             ELSE /\ fail = "state_changes" => asks
                  /\ slot_too_old' = (asks /\ TooOld(err))
                  /\ final_state_changes' =
                        IF asks /\ err = "" THEN answer.data ELSE <<>>
                  /\ parts' = [s \in Substates |-> got[s].page]
                  /\ last_step' = [s \in Substates |-> NextStep(last_step[s], new[s])]
                  /\ last_slot' = NextSlot(last_slot, fs.slot)
                  /\ current_slot' = fs.slot
                  /\ shist' = [seen EXCEPT
                                  !.answer = IF ~asks THEN "none"
                                             ELSE IF err = "" THEN "Ok" ELSE err]
                  /\ spc' = "decide"
                  /\ UNCHANGED sret
    /\ UNCHANGED <<final_state, last_consensus_step, sent>>
    /\ UNCHANGED streamFrame

\* if slot_too_old: send SlotTooOld and return Ok(()); send_msg can fail
StreamTooOld ==
    /\ spc = "decide"
    /\ slot_too_old
    /\ \E ok \in BOOLEAN :
          IF ok THEN /\ sent' = Append(sent, StreamMsg("SlotTooOld"))
                     /\ StreamReturn("Ok")
          ELSE /\ StreamReturn("Io")
               /\ UNCHANGED sent
    /\ UNCHANGED <<final_state, final_state_read, last_slot, last_step,
                   last_consensus_step, current_slot, parts,
                   final_state_changes, slot_too_old, shist>>
    /\ UNCHANGED streamFrame

\* Setup final state changes cursor, always Finished
final_state_changes_step_finished_always(changes) == TRUE

\* Setup final state changes cursor, Finished iff there are changes
final_state_changes_step_finished_inverted(changes) == changes # <<>>

\* Setup final state changes cursor: Finished iff the changes are empty
final_state_changes_step_finished(changes) == changes = <<>>

\* the consensus part asked whatever the final state global cursor
ConsensusDue_always(global_finished) == TRUE

\* Stream consensus blocks if final state base bootstrap is finished
ConsensusDue(global_finished) == global_finished

\* the global cursor derived from the ledger cursor alone
final_state_global_step_ledger(steps, slot) ==
    IF finished(steps["ledger"])
    THEN [st |-> "Finished", k |-> slot]
    ELSE Ongoing(slot)

\* Setup final state global cursor: Finished(Some(current_slot)) if the five
\* cursors of the final state are finished, Ongoing(current_slot) otherwise
final_state_global_step(steps, slot) ==
    IF /\ finished(steps["ledger"])
       /\ finished(steps["pool"])
       /\ finished(steps["cycle"])
       /\ finished(steps["credits"])
       /\ finished(steps["ops"])
    THEN [st |-> "Finished", k |-> slot]
    ELSE Ongoing(slot)

\* the rest of an iteration: the derived cursors, the consensus part, and
\* BootstrapFinished or the BootstrapPart
StreamDecide ==
    /\ spc = "decide"
    /\ ~slot_too_old
    /\ \E ok \in BOOLEAN, cfail \in BOOLEAN :
          LET global_step == final_state_global_step(last_step, current_slot)
              global_finished == finished(global_step)
              derived == [shist EXCEPT !.global = global_step]
              changes_finished == final_state_changes_step_finished(final_state_changes)
              asked == ConsensusDue(global_finished)
              cons == get_bootstrap_part(last_consensus_step)
              cstep == IF asked THEN cons.step ELSE last_consensus_step
              cpart == IF asked THEN cons.part ELSE {}
              outdated == IF asked THEN cons.outdated ELSE {}
              seen == IF asked
                      THEN [derived EXCEPT !.handed["consensus"] = last_consensus_step,
                                           !.returned["consensus"] = cons.step,
                                           !.ncalls["consensus"] = @ + 1]
                      ELSE derived
          IN IF asked /\ cfail
             THEN /\ StreamReturn("ConsensusError")
                  /\ shist' = derived
                  /\ UNCHANGED <<last_consensus_step, sent>>
             ELSE /\ ~cfail
                  /\ shist' = seen
                  /\ last_consensus_step' = NextStep(last_consensus_step, cstep)
                  /\ IF ~ok
                     THEN /\ StreamReturn("Io")
                          /\ UNCHANGED sent
                     ELSE IF global_finished /\ changes_finished /\ finished(cstep)
                     THEN /\ sent' = Append(sent, StreamMsg("BootstrapFinished"))
                          /\ StreamReturn("Ok")
                     ELSE /\ sent' = Append(sent,
                                 BootstrapPart(current_slot, parts,
                                               final_state_changes, cpart,
                                               outdated))
                          /\ spc' = "lock"
                          /\ UNCHANGED sret
    /\ UNCHANGED <<final_state, final_state_read, last_slot, last_step,
                   current_slot, parts, final_state_changes, slot_too_old>>
    /\ UNCHANGED streamFrame

StreamNext ==
    \/ FinalStateWrite
    \/ StreamCall
    \/ StreamLock
    \/ StreamRead
    \/ StreamTooOld
    \/ StreamDecide

\* one streaming call against a final state that is written to meanwhile; the
\* server's threads and the client binder are not looked at
StreamSpec == ClientInit /\ [][StreamNext]_vars

\* the variant of a cursor: Started, then Ongoing, then Finished
StepVariant(step) ==
    IF step.st = "Started" THEN 0 ELSE IF step.st = "Ongoing" THEN 1 ELSE 2

\* reader r is called in this step, and was called before
CalledAgain(r) == shist'.ncalls[r] > shist.ncalls[r] /\ shist.ncalls[r] > 0

InstallPage(store, pages) ==
    [s \in Substates |->
        [k \in Keys |->
            IF \E e \in pages[s] : e[1] = k
            THEN (CHOOSE e \in pages[s] : e[1] = k)[2]
            ELSE store[s][k]]]

\* the pages of the messages of q installed, oldest message first
RECURSIVE InstallAll(_, _)
InstallAll(store, q) ==
    IF q = <<>> THEN store
    ELSE InstallAll(InstallPage(store, Head(q).parts), Tail(q))

\* the entries of a changes log applied, oldest slot first
RECURSIVE ApplyLog(_, _)
ApplyLog(store, log) ==
    IF log = <<>> THEN store
    ELSE ApplyLog(ApplySet(store, Head(log).changes), Tail(log))

\* the changes logs of the messages of q applied, oldest message first
RECURSIVE ApplyAll(_, _)
ApplyAll(store, q) ==
    IF q = <<>> THEN store
    ELSE ApplyAll(ApplyLog(store, Head(q).final_state_changes), Tail(q))

\* what a client that started from nothing has after the messages of q: every
\* page installed, then every state changes entry applied in order
ClientState(q) == ApplyAll(InstallAll(EmptyStore, q), q)

\* the call of a client that started from nothing has ended with BootstrapFinished
StreamedAll ==
    /\ spc = "done"
    /\ sret = "Ok"
    /\ shist.fresh
    /\ sent # <<>>
    /\ sent[Len(sent)].tag = "BootstrapFinished"

\* C16: when a streaming call from the Started cursors ends with
\* BootstrapFinished, whatever writes of the final state came between its
\* iterations, the pages sent, installed, and then the state changes sent,
\* applied in order, give the final state the server had at the slot of the
\* last BootstrapPart
C16_ClientStateEqual ==
    StreamedAll
        => /\ ClientState(sent) = shist.snap.store
           /\ Len(sent) > 1 => sent[Len(sent) - 1].slot = shist.snap.slot

\* C16 witness: such a call has ended, the final state was written to twice
\* during the call, and a change of an entry already streamed was sent
C16_CaughtUp ==
    /\ StreamedAll
    /\ sent[1].slot = 0
    /\ shist.snap.slot = MaxSlot
    /\ \E i \in 1..Len(sent) :
          \E j \in 1..Len(sent[i].final_state_changes) :
             sent[i].final_state_changes[j].changes # {}
    /\ ClientState(sent) # InitialStore

\* the messages sent since the last read of the final state
SentInIteration == SubSeq(sent, shist.mark + 1, Len(sent))

\* another final-state error ends the call with FinalStateError, nothing sent
OtherErrorEnds ==
    shist.answer = "Other"
        => /\ spc = "done"
           /\ sret = "FinalStateError"
           /\ SentInIteration = <<>>

\* C20 as stated: after InvalidSlot the call ends with Ok and exactly one
\* SlotTooOld message
C20_SlotTooOldAndOk ==
    /\ (shist.answer = "InvalidSlot" /\ spc = "done")
           => /\ sret = "Ok"
              /\ Len(SentInIteration) = 1
              /\ sent[Len(sent)].tag = "SlotTooOld"
    /\ (shist.answer = "InvalidSlot" /\ spc # "done")
           => spc = "decide" /\ SentInIteration = <<>>
    /\ OtherErrorEnds

\* C20: in the iteration where the store answers InvalidSlot no BootstrapPart
\* and no BootstrapFinished is sent, and the call ends in that iteration:
\* with Ok and SlotTooOld as the only message of the iteration, or, when
\* sending it fails, with that error and no message; any other final-state
\* error ends the call with FinalStateError and nothing sent
C20_SlotTooOld ==
    /\ (shist.answer = "InvalidSlot" /\ spc = "done")
           => \/ /\ sret = "Ok"
                 /\ Len(SentInIteration) = 1
                 /\ sent[Len(sent)].tag = "SlotTooOld"
              \/ /\ sret = "Io"
                 /\ SentInIteration = <<>>
    /\ (shist.answer = "InvalidSlot" /\ spc # "done")
           => spc = "decide" /\ SentInIteration = <<>>
    /\ OtherErrorEnds

\* C20 witness: the final state moved on by more slots than it keeps changes
\* of after a BootstrapPart was sent, and the call ended with SlotTooOld
C20_TooOldMidStream ==
    /\ shist.answer = "InvalidSlot"
    /\ spc = "done"
    /\ sret = "Ok"
    /\ Len(sent) > 1
    /\ sent[1].tag = "BootstrapPart"
    /\ sent[Len(sent)].tag = "SlotTooOld"

\* a step of the streaming call that ends an iteration without slot_too_old
DecideStep == spc = "decide" /\ spc' # "decide" /\ ~slot_too_old

\* at the end of the iteration every final-state cursor is Finished, the
\* state changes are empty and the consensus cursor is Finished
AllDone ==
    /\ \A s \in Substates : finished(last_step[s])
    /\ final_state_changes = <<>>
    /\ finished(last_consensus_step')

\* the step sends message tag and nothing else
Sends(tag) ==
    /\ Len(sent') = Len(sent) + 1
    /\ SubSeq(sent', 1, Len(sent)) = sent
    /\ sent'[Len(sent')].tag = tag

C22_ConsensusAfterFinalState ==
    [][/\ shist'.ncalls["consensus"] > shist.ncalls["consensus"]
             => \A s \in Substates : finished(last_step[s])
       /\ (DecideStep /\ \E s \in Substates : ~finished(last_step[s]))
             => /\ last_consensus_step' = last_consensus_step
                /\ shist'.ncalls["consensus"] = shist.ncalls["consensus"]
                /\ sent' # sent
                      => /\ Sends("BootstrapPart")
                         /\ sent'[Len(sent')].consensus_part = {}
                         /\ sent'[Len(sent')].consensus_outdated_ids = {}]_vars

\* C22 witness: a BootstrapPart with no consensus part was sent while the
\* client's consensus cursor held an outdated block, and a later one carries
\* the consensus part and the outdated ids
C22_GraphAfterPages ==
    \E i, j \in 1..Len(sent) :
        /\ i < j
        /\ sent[i].tag = "BootstrapPart"
        /\ sent[i].parts # NoParts
        /\ sent[i].consensus_part = {}
        /\ sent[i].consensus_outdated_ids = {}
        /\ sent[j].consensus_part = Blocks
        /\ sent[j].consensus_outdated_ids = OutdatedBlocks

\* C23: the read guard of the final state is held only inside the scope of
\* the final state read: not when the consensus controller is asked, not when
\* a message is sent, not after the call has returned; outside that scope a
\* writer gets the write lock
C23_LockOnlyWhileReading ==
    /\ final_state_read => spc = "read"
    /\ spc \in {"decide", "done"} => ~final_state_read
    /\ (spc # "read" /\ final_state.slot < MaxSlot)
           => ENABLED <<FinalStateWrite>>_vars

\* C23 witness: in the second iteration, between the read and the send, the
\* final state was written to
C23_WriteBeforeSend ==
    /\ spc = "decide"
    /\ ~final_state_read
    /\ sent # <<>>
    /\ final_state.slot > current_slot
    /\ shist.snap.slot = current_slot

(* ------------- one session: run_bootstrap_session --------------------- *)

\* what a session and its client leave alone
sessionFrame == <<serverVars, binderVars, streamVars, headerVars,
                greedyVars>>

\* the client writes its handshake, then messages, while the socket is open
SessionClientWrite ==
    /\ mpc # "panicked"
    /\ cwritten <= MaxClientMsgs
    /\ \E m \in IF cwritten = 0 THEN {ClientHandshake(TRUE), ClientHandshake(FALSE)}
                ELSE SessionClientMessages :
          cin' = Append(cin, m)
    /\ cwritten' = cwritten + 1
    /\ UNCHANGED <<mpc, sout, mres, fetch, arc_counter>>
    /\ UNCHANGED sessionFrame

\* server.blocking_handshake(version, read_timeout)?: the read times out when
\* nothing has come, fails on a version that is not compatible, and sends
\* nothing
ManageHandshake ==
    /\ mpc = "handshake"
    /\ IF cin = <<>>
       THEN /\ mres' = "TimedOut"
            /\ mpc' = "drop"
            /\ UNCHANGED cin
       ELSE /\ cin' = Tail(cin)
            /\ IF Head(cin) = ClientHandshake(TRUE)
               THEN mpc' = "fetch" /\ UNCHANGED mres
               ELSE mres' = "IncompatibleVersion" /\ mpc' = "drop"
    /\ UNCHANGED <<cwritten, sout, fetch, arc_counter>>
    /\ UNCHANGED sessionFrame

\* let fetch = server.blocking_next(read_error_timeout): a message of the
\* client, or the timeout when none has come
ManageFetch ==
    /\ mpc = "fetch"
    /\ IF cin = <<>>
       THEN fetch' = [type |-> "timeout", text |-> ""] /\ UNCHANGED cin
       ELSE fetch' = Head(cin) /\ cin' = Tail(cin)
    /\ mpc' = "todo"
    /\ UNCHANGED <<cwritten, sout, mres, arc_counter>>
    /\ UNCHANGED sessionFrame

\* todo!("handle the fetch here"): the thread panics whatever fetch is; the
\* unwinding drops arc_counter and the binder, which closes the socket
ManageTodo ==
    /\ mpc = "todo"
    /\ mpc' = "panicked"
    /\ arc_counter' = FALSE
    /\ UNCHANGED <<cin, cwritten, sout, mres, fetch>>
    /\ UNCHANGED sessionFrame

\* manage_bootstrap has returned res: drop(arc_counter)
RunDrop ==
    /\ mpc = "drop"
    /\ arc_counter' = FALSE
    /\ mpc' = "mgmt"
    /\ UNCHANGED <<cin, cwritten, sout, mres, fetch>>
    /\ UNCHANGED sessionFrame

\* todo!("handle bootstrap mgmt result"): the thread panics, res is not looked
\* at, nothing is sent, the unwinding drops the binder
RunTodo ==
    /\ mpc = "mgmt"
    /\ mpc' = "panicked"
    /\ UNCHANGED <<cin, cwritten, sout, mres, fetch, arc_counter>>
    /\ UNCHANGED sessionFrame

SessionStep ==
    \/ ManageHandshake
    \/ ManageFetch
    \/ ManageTodo
    \/ RunDrop
    \/ RunTodo

SessionNext == SessionClientWrite \/ SessionStep

\* one session thread and its client; the scheduler and the other sessions
\* are not looked at
SessionSpec == ClientInit /\ [][SessionNext]_vars

\* the session thread is gone
SessionOver == mpc = "panicked"

\* C24: the server sends nothing before it has read the handshake; a session
\* whose client stays silent after the handshake goes on and the first
\* message it sends is BootstrapTime; a session whose client writes early
\* ends with an error
C24_TimeAfterHandshake ==
    /\ mpc = "handshake" => sout = <<>>
    /\ (SessionOver /\ fetch.type = "timeout")
           => /\ sout # <<>>
              /\ sout[1].type = "BootstrapTime"
    /\ (SessionOver /\ fetch \in SessionClientMessages) => mres # "Ok"

\* C25: a session that went past the wait for an early message ends because
\* its request loop ended: with success, or with the error it received or met
C25_RequestLoopEnds ==
    (SessionOver /\ fetch.type = "timeout")
        => mres \in {"Ok", "ReceivedError", "Io"}

\* C26: a session that a fatal error of its own ends has sent one
\* BootstrapError message
C26_ErrorFrameSent ==
    (SessionOver /\ mres \in {"TimedOut", "IncompatibleVersion"})
        => /\ Len(sout) = 1
           /\ sout[1].type = "BootstrapError"

\* C27: when the scheduler is done with an accepted connection, ip_hist_map
\* holds at most ip_list_max_size entries
C27_HistoryBounded == MapLen(ip_hist_map) <= ip_list_max_size

\* the server and its manager, select! in run_updater taking the stop
\* message at some point when it stays ready
FairStopSpec == Spec /\ WF_vars(UpdaterStop)

\* C28 as stated: once the stop message is on the updater's channel the
\* updater exits with Ok
C28_UpdaterExitsOk == updStopCh ~> (updater = "exit_ok")

\* a step that changes the access list
ListChanged == whitelist' # whitelist \/ blacklist' # blacklist

\* C28: once the stop message is on the updater's channel the updater exits,
\* with Ok when it takes the message, with the error of list.update() when a
\* tick it takes before fails; it updates no list after it has taken the
\* message; and the access list is only changed by the updater, never by the
\* scheduler thread
C28_UpdaterStops ==
    /\ updStopCh ~> (updater \in {"exit_ok", "exit_err"})
    /\ [][/\ (updater = "running" /\ updater' = "exit_ok")
                => updStopCh /\ ~updStopCh' /\ ~ListChanged
          /\ updater # "running" => ~ListChanged /\ updater' = updater
          /\ ListChanged
                => /\ updater = "running"
                   /\ UNCHANGED <<schedVars, strong_count, conn, mgr>>]_vars

\* C28 witness: the updater has taken the stop message and returned Ok
\* while the scheduler thread was still running
C28_StoppedFirst ==
    /\ updater = "exit_ok"
    /\ mgr = "signalled"
    /\ ~updStopCh
    /\ ~SchedExited

\* C30: after a successful next_timeout the client's chain hash is the hash
\* of the chain hash it had before followed by the payload received, or of
\* the payload alone when it had none
C30_ChainHashOfPayload ==
    (ret.op = "next" /\ ret.kind = "Ok")
        => /\ ret.after = ChainDigest(ret.legacy, Serialize(ret.msg))
           /\ cpc = "idle" => prev_message = ret.after

\* C31: when next_timeout fails after the header was read (body read error,
\* signature mismatch, payload deserialization error), the client's chain
\* hash is the one it had before the call
C31_FailureKeepsChain ==
    (/\ cpc \in {"idle", "broken"}
     /\ ret.op = "next" /\ ret.kind = "Err"
     /\ ret.err \in {"Io", "BadSignature", "DeserializeError"})
        => prev_message = ret.legacy

\* C32: a send_timeout that fails on a message longer than
\* max_bootstrap_message_size has written no byte and has left the client's
\* chain hash as it was
C32_OversizeSendWritesNothing ==
    [][(cpc = "idle" /\ ret'.op = "send" /\ ret'.kind = "Err" /\ ret' # ret)
           => (tx' = tx /\ prev_message' = prev_message)]_vars

\* C33: an iteration whose last_slot is present and greater than the slot of
\* the final state ends the call with an error and sends no frame; an
\* iteration whose last_slot is absent or equal to that slot does not ask the
\* state changes, and the part it sends carries none
C33_FutureSlotFails ==
    /\ [][(spc = "read" /\ spc' # "read")
             => /\ (last_slot # NoSlot /\ last_slot > final_state.slot)
                     => /\ spc' = "done"
                        /\ sret' \notin {"none", "Ok"}
                        /\ sent' = sent
                /\ (last_slot = NoSlot \/ last_slot = final_state.slot)
                     => /\ shist'.answer = "none"
                        /\ spc' = "decide" => final_state_changes' = <<>>]_vars
    /\ [][(spc = "decide" /\ shist.answer = "none" /\ Sends("BootstrapPart"))
             => sent'[Len(sent')].final_state_changes = <<>>]_vars

\* a call with the cursor of a future slot has failed at its first read, and
\* has sent nothing
C33_FutureSlotRefused ==
    /\ spc = "done"
    /\ sret = "GeneralError"
    /\ last_slot > shist.snap.slot
    /\ sent = <<>>

\* C34 as stated: the global step an iteration derives is Finished iff the
\* six cursors, the consensus one included, are Finished after the
\* iteration's reads
C34_GlobalStepOverSix ==
    [][DecideStep
          => (finished(shist'.global)
                <=> /\ \A s \in Substates : finished(last_step[s])
                    /\ finished(last_consensus_step'))]_vars

\* C34: the global step an iteration derives is Finished(current_slot) iff
\* the five cursors of the final state (ledger, async pool, PoS cycle,
\* deferred credits, executed ops) are Finished after the iteration's reads,
\* and Ongoing(current_slot) otherwise, whatever the consensus cursor
C34_GlobalStep ==
    [][DecideStep
          => shist'.global =
                IF \A s \in Substates : finished(last_step[s])
                THEN [st |-> "Finished", k |-> current_slot]
                ELSE Ongoing(current_slot)]_vars

\* an iteration has derived a Finished global step and has sent a part, the
\* consensus cursor being Ongoing
C34_FinishedBeforeGraph ==
    /\ spc = "lock"
    /\ sent # <<>>
    /\ finished(shist.global)
    /\ last_consensus_step.st = "Ongoing"

\* the thread of the streaming call keeps running
FairStreamSpec ==
    StreamSpec
    /\ WF_vars(StreamLock \/ StreamRead \/ StreamTooOld \/ StreamDecide)

\* C36: a streaming call ends (the readers finish after finitely many pages
\* and the slot stops advancing); an iteration that reads another slot than
\* the iteration before has state changes to send or finds the slot too old,
\* and an iteration with state changes that no error ends sends one
\* BootstrapPart and goes on, never BootstrapFinished
C36_StreamingEnds ==
    /\ (spc # "idle") ~> (spc = "done")
    /\ [][(/\ spc = "read" /\ spc' = "decide"
           /\ shist.ncalls["ledger"] > 0
           /\ final_state.slot # shist.snap.slot)
             => (slot_too_old' \/ final_state_changes' # <<>>)]_vars
    /\ [][(DecideStep /\ final_state_changes # <<>>)
             => /\ ~Sends("BootstrapFinished")
                /\ sent' # sent => (Sends("BootstrapPart") /\ spc' = "lock")]_vars

\* a call has ended with BootstrapFinished after an iteration, not the
\* first, that sent the state changes of a slot reached meanwhile
C36_EndedAfterAdvance ==
    /\ spc = "done"
    /\ sret = "Ok"
    /\ sent # <<>>
    /\ sent[Len(sent)].tag = "BootstrapFinished"
    /\ \E i \in 2..Len(sent) : sent[i].final_state_changes # <<>>

\* C37: the state changes an iteration reads are those of the slots after
\* last_slot up to the slot it reads, one entry a slot in order (none when
\* last_slot is absent or is that slot); last_slot is the slot the iteration
\* before read (the client's last_slot for the first); so the logs of two
\* successive BootstrapPart cover the slots between their slots, once each
C37_ContiguousLogs ==
    /\ [][(spc = "read" /\ spc' = "decide")
             => /\ shist.ncalls["ledger"] > 0 => last_slot = shist.snap.slot
                /\ last_slot' = final_state.slot
                /\ current_slot' = final_state.slot
                /\ ~slot_too_old'
                     => final_state_changes' =
                           IF last_slot = NoSlot THEN <<>>
                           ELSE [j \in 1..(final_state.slot - last_slot) |->
                                    final_state_changes'[j]]
                /\ \A j \in 1..Len(final_state_changes') :
                       final_state_changes'[j].slot = last_slot + j]_vars
    /\ [](\A i \in 2..Len(sent) :
             sent[i].tag = "BootstrapPart"
                => LET log == sent[i].final_state_changes
                   IN /\ Len(log) = sent[i].slot - sent[i - 1].slot
                      /\ \A j \in 1..Len(log) :
                             log[j].slot = sent[i - 1].slot + j)

\* a call has sent a part with the changes of the slots reached since the
\* part before, and a part of the same slot as the part before
C37_LogsThenNone ==
    /\ \E i \in 2..Len(sent) :
          /\ sent[i].tag = "BootstrapPart"
          /\ sent[i].slot > sent[i - 1].slot
          /\ sent[i].final_state_changes # <<>>
    /\ \E i \in 2..Len(sent) :
          /\ sent[i].tag = "BootstrapPart"
          /\ sent[i].slot = sent[i - 1].slot

\* C38: from the break out of the space_waiter loop until a connection is
\* taken off the accept queue the live sessions are fewer than
\* max_bootstraps; no step but the admission of the connection taken raises
\* their number; so the cap guard of a connection taken never refuses it
C38_TakenBelowCap ==
    /\ [](schedPc \in {"poll", "events"} => LiveTokens < max_bootstraps)
    /\ [][Len(acceptQueue') < Len(acceptQueue)
             => /\ LiveTokens < max_bootstraps
                /\ last'.outcome # "NoSlots"]_vars
    /\ [][(LiveTokens' > LiveTokens \/ strong_count' > strong_count)
             => /\ schedPc = "events"
                /\ Len(acceptQueue') < Len(acceptQueue)
                /\ last'.outcome = "Admitted"
                /\ LiveTokens' = LiveTokens + 1]_vars

\* a connection has been taken and admitted after the session of another
\* one, admitted before, released its token
C38_TakenAfterRelease ==
    /\ last.outcome = "Admitted"
    /\ \E c, d \in Conns :
          /\ c # d
          /\ conn[c].releases = 1
          /\ conn[d].token = 1

\* a pass of run_loop that takes a connection and refuses it
RefusalStep ==
    /\ Len(acceptQueue') < Len(acceptQueue)
    /\ last'.outcome \in Refusals

\* C39 as stated: a refusal leaves the sessions counter and the IP-history
\* map as they were
C39_RefusalChangesNothing ==
    [][RefusalStep => /\ strong_count' = strong_count
                      /\ ip_hist_map' = ip_hist_map]_vars

\* C39: a refusal leaves the sessions counter, the tokens held and the
\* admissions made as they were; a refusal by the lists or by the cap leaves
\* the IP-history map as it was; a too-soon refusal leaves the entry of the
\* refused IP as it was, the map being changed by the pruning at most
C39_RefusalFrame ==
    [][RefusalStep
         => /\ strong_count' = strong_count
            /\ LiveTokens' = LiveTokens
            /\ lastAdmit' = lastAdmit
            /\ last'.outcome # "TooSoon" => ip_hist_map' = ip_hist_map
            /\ last'.outcome = "TooSoon"
                  => /\ ip_hist_map[Head(acceptQueue)[2]] # NoTime
                     /\ ip_hist_map'[Head(acceptQueue)[2]]
                           = ip_hist_map[Head(acceptQueue)[2]]
                     /\ ip_hist_map' = PruneHistory(ip_hist_map, now)]_vars

\* a too-soon refusal whose pass pruned the entry of the other IP, admitted
\* earlier
C39_RefusedAndPruned ==
    /\ last.outcome = "TooSoon"
    /\ \A i \in Ips : lastAdmit[i] # NoTime
    /\ \E i \in Ips : ip_hist_map[i] = NoTime
    /\ \E i \in Ips : ip_hist_map[i] # NoTime /\ ip_hist_map[i] = lastAdmit[i]

\* the server while nobody stops it, the scheduler thread and the session
\* workers being scheduled again and again: every session ends; clients need
\* not connect again
FairServiceSpec ==
    AdmissionSpec /\ WF_vars(SchedulerRunning) /\ WF_vars(Session)

\* C40: a connection in the accept queue is eventually taken off it by the
\* scheduler, which admits or refuses it, unless run_loop has returned
C40_QueuedIsTaken ==
    \A c \in Conns :
        (conn[c].st = "queued") ~> (conn[c].st # "queued" \/ SchedExited)

(* ------------- massa-models: BlockHeader serialization ---------------- *)

\* what the serialization of a header leaves alone
headerFrame == <<serverVars, binderVars, streamVars, sessionVars, greedyVars>>

\* BlockHeaderSerializer::new().serialize(&header, &mut buffer)
HeaderSerialize ==
    /\ hpc = "new"
    /\ hbuf' = SerializeHeader(hdr)
    /\ hpc' = "serialized"
    /\ UNCHANGED <<hdr, last_start_period, hout>>
    /\ UNCHANGED headerFrame

\* BlockHeaderDeserializer::new(THREAD_COUNT, ENDORSEMENT_COUNT,
\* MAX_DENUNCIATIONS_PER_BLOCK_HEADER, last_start_period).deserialize(&buffer)
HeaderDeserialize ==
    /\ hpc = "serialized"
    /\ hout' = DeserializeHeader(hbuf, last_start_period)
    /\ hpc' = "deserialized"
    /\ UNCHANGED <<hdr, last_start_period, hbuf>>
    /\ UNCHANGED headerFrame

HeaderNext == HeaderSerialize \/ HeaderDeserialize

\* a header is built; it is serialized and the bytes are deserialized
HeaderStart ==
    /\ ServerInit /\ whitelist = {} /\ blacklist = {}
    /\ BinderInit /\ StreamInit /\ SessionInit
    /\ HeaderInit /\ NoGreedy

HeaderSpec == HeaderStart /\ [][HeaderNext]_vars

\* C29: the bytes of a serialized header, deserialized with no
\* last_start_period, give the header back and leave no byte
C29_HeaderRoundTrip ==
    (hpc = "deserialized" /\ last_start_period = NoPeriod)
        => /\ hout.ok
           /\ hout.header = hdr
           /\ hout.rest = <<>>

(* ------------- greedy_client_check on its own -------------------------- *)

\* what a call of greedy_client_check leaves alone
greedyFrame == <<serverVars, binderVars, streamVars, sessionVars, headerVars>>

\* the arguments of a call: a map of instants that are not after now, a peer,
\* now, and the clock when the entry is looked at, which is not before now
GreedyInit ==
    /\ \E m \in [Ips -> {NoTime} \cup 0..MaxTime], ip \in Ips,
          t \in 0..MaxTime, clock \in 0..MaxTime :
          /\ \A i \in Ips : m[i] <= t
          /\ t <= clock
          /\ gcheck = [pc |-> "call", map |-> m, ip |-> ip, now |-> t,
                       clock |-> clock,
                       res |-> [ok |-> TRUE, map |-> m, elapsed |-> NoTime],
                       text |-> [ago |-> NoTime, wait |-> NoTime]]

\* BootstrapServer::greedy_client_check(&mut ip_hist_map, remote_addr, now,
\* per_ip_min_interval)
GreedyCheck ==
    /\ gcheck.pc = "call"
    /\ gcheck' = [gcheck EXCEPT
                    !.pc = "returned",
                    !.res = greedy_client_check(gcheck.map, gcheck.ip, gcheck.now,
                                                per_ip_min_interval, gcheck.clock)]
    /\ UNCHANGED greedyFrame

\* if let Err(msg) = ..: the text of the refusal is made
GreedyRefuse ==
    /\ gcheck.pc = "returned"
    /\ ~gcheck.res.ok
    /\ gcheck' = [gcheck EXCEPT
                    !.pc = "refused",
                    !.text = GreedyMessage(gcheck.res.elapsed, per_ip_min_interval)]
    /\ UNCHANGED greedyFrame

\* "Clients Option<last-attempt> is good, and has been updated"
GreedyAdmit ==
    /\ gcheck.pc = "returned"
    /\ gcheck.res.ok
    /\ gcheck' = [gcheck EXCEPT !.pc = "admitted"]
    /\ UNCHANGED greedyFrame

GreedyNext == GreedyCheck \/ GreedyRefuse \/ GreedyAdmit

GreedyStart ==
    /\ ServerInit /\ whitelist = {} /\ blacklist = {}
    /\ BinderInit /\ StreamInit /\ SessionInit /\ NoHeader
    /\ GreedyInit

\* greedy_client_check is called once on a map, and its result is used
GreedySpec == GreedyStart /\ [][GreedyNext]_vars

\* C35: greedy_client_check on a map with an entry last for the peer's IP
\* with now - last <= interval returns an error and leaves the map as it
\* was, and the time reported plus the wait announced is the interval;
\* otherwise it returns Ok and the map differs by the entry of that IP
\* alone, which is now
C35_GreedyCheck ==
    gcheck.pc \in {"refused", "admitted"}
        => LET m == gcheck.map
               ip == gcheck.ip
           IN IF m[ip] # NoTime /\ gcheck.now - m[ip] <= per_ip_min_interval
              THEN /\ gcheck.pc = "refused"
                   /\ gcheck.res.map = m
                   /\ gcheck.text.ago + gcheck.text.wait = per_ip_min_interval
              ELSE /\ gcheck.pc = "admitted"
                   /\ gcheck.res.map = [m EXCEPT ![ip] = gcheck.now]

====
